---------------------------- MODULE Spec2Model ----------------------------
(***************************************************************************)
(* A model of the gl-matrix numeric kernel (fork nonphoto/gl-matrix):      *)
(* rect.ts, quad2d, mat2, mat2d, quat, quat2, vec2/3/4 and common.ts.       *)
(*                                                                         *)
(* Numbers.  A JavaScript number is modelled as an extended rational       *)
(* <<n, d>> in lowest terms with d >= 0: d > 0 is the finite value n/d,    *)
(* <<1,0>> is +Infinity, <<-1,0>> is -Infinity and <<0,0>> is NaN.         *)
(* Arithmetic is exact (no IEEE-754 rounding, no signed zero).             *)
(*                                                                         *)
(* Storage.  Every array and every rect is an object of a heap (a function *)
(* from object ids to values).  An operation is an operator from a heap    *)
(* and object ids to the heap after the call; it performs the writes of    *)
(* the source one by one and in the source's order, and every read goes to *)
(* the heap as it is at that point, so that a call whose out is one of its *)
(* inputs behaves as in the source.  JavaScript index i is TLA+ index i+1. *)
(***************************************************************************)
EXTENDS Integers, Sequences, FiniteSets, TLC

(***************************************************************************)
(* Bounds of the model                                                     *)
(***************************************************************************)
MaxSize == 3
MaxVal == 1

(***************************************************************************)
(* Numbers                                                                 *)
(***************************************************************************)
Abs(i) == IF i < 0 THEN -i ELSE i

Sgn(i) == IF i < 0 THEN -1 ELSE IF i > 0 THEN 1 ELSE 0

RECURSIVE GCD(_, _)
GCD(a, b) == IF b = 0 THEN a ELSE GCD(b, a % b)

\* the number n/d in lowest terms; d = 0 gives Infinity, -Infinity or NaN
Norm(n, d) ==
  IF d = 0 THEN <<Sgn(n), 0>>
  ELSE LET g == GCD(Abs(n), Abs(d))
           s == IF d < 0 THEN -1 ELSE 1
       IN <<(s * n) \div g, (s * d) \div g>>

R(i) == <<i, 1>>
Q(n, d) == Norm(n, d)

Zero == R(0)
One == R(1)
Two == R(2)
Half == Q(1, 2)
NaN == <<0, 0>>
PosInf == <<1, 0>>
NegInf == <<-1, 0>>

IsNaN(a) == a = NaN
IsFinite(a) == a[2] > 0

\* a + b
RAdd(a, b) ==
  IF a[2] = 0 /\ b[2] = 0
  THEN (IF a = b THEN a ELSE NaN)
  ELSE IF a[2] = 0 \/ b[2] = 0
  THEN Norm(a[1] * b[2] + b[1] * a[2], a[2] * b[2])
  ELSE LET g == GCD(a[2], b[2])
       IN Norm(a[1] * (b[2] \div g) + b[1] * (a[2] \div g), (a[2] \div g) * b[2])

\* -a
RNeg(a) == <<-a[1], a[2]>>

\* a - b
RSub(a, b) == RAdd(a, RNeg(b))

\* a * b
RMul(a, b) ==
  IF a[2] = 0 \/ b[2] = 0 \/ a[1] = 0 \/ b[1] = 0
  THEN Norm(a[1] * b[1], a[2] * b[2])
  ELSE LET g1 == GCD(Abs(a[1]), b[2])
           g2 == GCD(Abs(b[1]), a[2])
       IN Norm((a[1] \div g1) * (b[1] \div g2), (a[2] \div g2) * (b[2] \div g1))

\* a / b (an infinite a over a negative b changes its sign)
RDiv(a, b) ==
  IF a[2] = 0 /\ b[2] = 0 THEN NaN
  ELSE IF a[2] = 0 /\ b[1] < 0 THEN RNeg(a)
  ELSE Norm(a[1] * b[2], a[2] * b[1])

\* a < b (false when either is NaN)
RLt(a, b) ==
  IF IsNaN(a) \/ IsNaN(b) THEN FALSE
  ELSE IF a[2] = 0 /\ b[2] = 0 THEN a[1] < b[1]
  ELSE a[1] * b[2] < b[1] * a[2]

\* a <= b (false when either is NaN)
RLe(a, b) ==
  IF IsNaN(a) \/ IsNaN(b) THEN FALSE
  ELSE IF a[2] = 0 /\ b[2] = 0 THEN a[1] <= b[1]
  ELSE a[1] * b[2] <= b[1] * a[2]

RGt(a, b) == RLt(b, a)
RGe(a, b) == RLe(b, a)

\* a === b
REq(a, b) == ~IsNaN(a) /\ ~IsNaN(b) /\ a = b

\* Math.abs
MathAbs(a) == <<Abs(a[1]), a[2]>>

\* Math.min and Math.max of two numbers (NaN when either is NaN)
MathMin(a, b) == IF IsNaN(a) \/ IsNaN(b) THEN NaN ELSE IF RLe(a, b) THEN a ELSE b
MathMax(a, b) == IF IsNaN(a) \/ IsNaN(b) THEN NaN ELSE IF RGe(a, b) THEN a ELSE b

\* the comparison function handed to the fit operations
Compare(cmp, a, b) == IF cmp = "min" THEN MathMin(a, b) ELSE MathMax(a, b)


(***************************************************************************)
(* State                                                                   *)
(***************************************************************************)
VARIABLES
  phase,       \* "ready" before the call under study, "done" after it; the
               \* sequence specifications use their own positions
  heap,        \* object id -> value (a rect record or a sequence of numbers)
  pre,         \* the heap as it was when the call was made
  call,        \* the call that was made: its name and its arguments
  ret,         \* what the call returned: an object id, "null" or "undefined"
  ARRAY_TYPE,  \* common.ts: the constructor used for new storage
  stype,       \* object id -> storage type of a constructed object
  born,        \* object id -> ARRAY_TYPE at the moment it was constructed
  stack        \* the invocations of the scratch-buffer wrappers in flight

vars == <<phase, heap, pre, call, ret, ARRAY_TYPE, stype, born, stack>>

NoCall == [op |-> "none"]
EmptyMap == [x \in {} |-> 0]

\* what every specification starts from besides its own heap
Fresh ==
  /\ phase = "ready"
  /\ call = NoCall
  /\ ret = "undefined"
  /\ ARRAY_TYPE = "Array"
  /\ stype = EmptyMap
  /\ born = EmptyMap
  /\ stack = <<>>

\* the bookkeeping of a completed call
Done(c, r) ==
  /\ phase = "ready"
  /\ phase' = "done"
  /\ pre' = heap
  /\ call' = c
  /\ ret' = r
  /\ UNCHANGED <<ARRAY_TYPE, stype, born, stack>>

(***************************************************************************)
(* Arrays: reads and writes of a[i]                                        *)
(***************************************************************************)
\* a[i]; an index outside the array reads undefined, which arithmetic
\* turns into NaN
Rd(h, o, i) == IF (i + 1) \in DOMAIN h[o] THEN h[o][i + 1] ELSE NaN

\* s followed by holes up to length n
RECURSIVE Pad(_, _)
Pad(s, n) == IF Len(s) >= n THEN s ELSE Pad(Append(s, NaN), n)

\* a[i] = v on a plain Array: an index at or beyond the length grows the
\* array (the holes in between read as undefined)
Wr(h, o, i, v) ==
  IF i + 1 <= Len(h[o])
  THEN [h EXCEPT ![o][i + 1] = v]
  ELSE [h EXCEPT ![o] = Append(Pad(h[o], i), v)]

\* out[0] = vs[1]; out[1] = vs[2]; ... for values computed before the
\* first write
RECURSIVE WrFrom(_, _, _, _)
WrFrom(h, o, vs, k) ==
  IF k > Len(vs) THEN h ELSE WrFrom(Wr(h, o, k - 1, vs[k]), o, vs, k + 1)

WrAll(h, o, vs) == WrFrom(h, o, vs, 1)

\* a0*b0 + a1*b1 and friends
Mul2(a, b, c, d) == RAdd(RMul(a, b), RMul(c, d))

(***************************************************************************)
(* mat2 (src/package.json holds mat2.ts and quat2.ts after the manifest)   *)
(***************************************************************************)
mat2Identity(h, out) ==
  LET h1 == Wr(h, out, 0, One)
      h2 == Wr(h1, out, 1, Zero)
      h3 == Wr(h2, out, 2, Zero)
  IN Wr(h3, out, 3, One)

\* mat2Transpose without the cached a1 of the in-place branch
mat2Transpose_noCache(h, out, a) ==
  LET h1 == Wr(h, out, 0, Rd(h, a, 0))
      h2 == Wr(h1, out, 1, Rd(h1, a, 2))
      h3 == Wr(h2, out, 2, Rd(h2, a, 1))
  IN Wr(h3, out, 3, Rd(h3, a, 3))

mat2Transpose(h, out, a) ==
  IF out = a
  THEN LET a1 == Rd(h, a, 1)
           h1 == Wr(h, out, 1, Rd(h, a, 2))
       IN Wr(h1, out, 2, a1)
  ELSE LET h1 == Wr(h, out, 0, Rd(h, a, 0))
           h2 == Wr(h1, out, 1, Rd(h1, a, 2))
           h3 == Wr(h2, out, 2, Rd(h2, a, 1))
       IN Wr(h3, out, 3, Rd(h3, a, 3))

mat2Determinant(h, a) ==
  RSub(RMul(Rd(h, a, 0), Rd(h, a, 3)), RMul(Rd(h, a, 2), Rd(h, a, 1)))

\* !det: true for 0 and for NaN
Falsy(x) == IsNaN(x) \/ x = Zero

\* the determinant mat2Invert computes from its cached elements
mat2InvertDet(h, a) ==
  RSub(RMul(Rd(h, a, 0), Rd(h, a, 3)), RMul(Rd(h, a, 2), Rd(h, a, 1)))

\* a mat2Invert that writes the adjugate before it tests the determinant
mat2Invert_writesFirst(h, out, a) ==
  LET a0 == Rd(h, a, 0)
      a1 == Rd(h, a, 1)
      a2 == Rd(h, a, 2)
      a3 == Rd(h, a, 3)
      det0 == RSub(RMul(a0, a3), RMul(a2, a1))
      det == RDiv(One, det0)
  IN IF Falsy(det0) THEN WrAll(h, out, <<a3, RNeg(a1), RNeg(a2), a0>>)
     ELSE WrAll(h, out, <<RMul(a3, det), RMul(RNeg(a1), det),
                          RMul(RNeg(a2), det), RMul(a0, det)>>)

\* a mat2Invert that reads a[0] again after out[0] has been written
mat2Invert_noCache(h, out, a) ==
  LET a1 == Rd(h, a, 1)
      a2 == Rd(h, a, 2)
      a3 == Rd(h, a, 3)
      det0 == RSub(RMul(Rd(h, a, 0), a3), RMul(a2, a1))
      det == RDiv(One, det0)
      h1 == WrAll(h, out, <<RMul(a3, det), RMul(RNeg(a1), det), RMul(RNeg(a2), det)>>)
  IN IF Falsy(det0) THEN h ELSE Wr(h1, out, 3, RMul(Rd(h1, a, 0), det))

\* a mat2Invert that forgets to divide by the determinant
mat2Invert_noScale(h, out, a) ==
  LET a0 == Rd(h, a, 0)
      a1 == Rd(h, a, 1)
      a2 == Rd(h, a, 2)
      a3 == Rd(h, a, 3)
      det0 == RSub(RMul(a0, a3), RMul(a2, a1))
  IN IF Falsy(det0) THEN h
     ELSE WrAll(h, out, <<a3, RNeg(a1), RNeg(a2), a0>>)

\* the heap after mat2Invert(out, a)
mat2Invert(h, out, a) ==
  LET a0 == Rd(h, a, 0)
      a1 == Rd(h, a, 1)
      a2 == Rd(h, a, 2)
      a3 == Rd(h, a, 3)
      det0 == RSub(RMul(a0, a3), RMul(a2, a1))
      det == RDiv(One, det0)
  IN IF Falsy(det0) THEN h
     ELSE WrAll(h, out, <<RMul(a3, det), RMul(RNeg(a1), det),
                          RMul(RNeg(a2), det), RMul(a0, det)>>)

\* what mat2Invert(out, a) returns
mat2InvertRet(h, out, a) == IF Falsy(mat2InvertDet(h, a)) THEN "null" ELSE out

\* a mat2Adjoint that does not cache a[0]
mat2Adjoint_noCache(h, out, a) ==
  LET h1 == Wr(h, out, 0, Rd(h, a, 3))
      h2 == Wr(h1, out, 1, RNeg(Rd(h1, a, 1)))
      h3 == Wr(h2, out, 2, RNeg(Rd(h2, a, 2)))
  IN Wr(h3, out, 3, Rd(h3, a, 0))

mat2Adjoint(h, out, a) ==
  LET a0 == Rd(h, a, 0)
      h1 == Wr(h, out, 0, Rd(h, a, 3))
      h2 == Wr(h1, out, 1, RNeg(Rd(h1, a, 1)))
      h3 == Wr(h2, out, 2, RNeg(Rd(h2, a, 2)))
  IN Wr(h3, out, 3, a0)

\* a mat2Multiply with its operands exchanged
mat2Multiply_swapped(h, out, a, b) ==
  LET a0 == Rd(h, b, 0)
      a1 == Rd(h, b, 1)
      a2 == Rd(h, b, 2)
      a3 == Rd(h, b, 3)
      b0 == Rd(h, a, 0)
      b1 == Rd(h, a, 1)
      b2 == Rd(h, a, 2)
      b3 == Rd(h, a, 3)
  IN WrAll(h, out, <<Mul2(a0, b0, a2, b1), Mul2(a1, b0, a3, b1),
                     Mul2(a0, b2, a2, b3), Mul2(a1, b2, a3, b3)>>)

mat2Multiply(h, out, a, b) ==
  LET a0 == Rd(h, a, 0)
      a1 == Rd(h, a, 1)
      a2 == Rd(h, a, 2)
      a3 == Rd(h, a, 3)
      b0 == Rd(h, b, 0)
      b1 == Rd(h, b, 1)
      b2 == Rd(h, b, 2)
      b3 == Rd(h, b, 3)
  IN WrAll(h, out, <<Mul2(a0, b0, a2, b1), Mul2(a1, b0, a3, b1),
                     Mul2(a0, b2, a2, b3), Mul2(a1, b2, a3, b3)>>)

(***************************************************************************)
(* mat2d (src/unnamed/part_000 holds vec2.ts, quad2d.ts, mat2d.ts, quat.ts)*)
(***************************************************************************)
mat2dIdentity(h, out) ==
  LET h1 == Wr(h, out, 0, One)
      h2 == Wr(h1, out, 1, Zero)
      h3 == Wr(h2, out, 2, Zero)
      h4 == Wr(h3, out, 3, One)
      h5 == Wr(h4, out, 4, Zero)
  IN Wr(h5, out, 5, Zero)

\* the determinant mat2dInvert computes from its cached elements
mat2dInvertDet(h, a) ==
  RSub(RMul(Rd(h, a, 0), Rd(h, a, 3)), RMul(Rd(h, a, 1), Rd(h, a, 2)))

\* the heap after mat2dInvert(out, a)
mat2dInvert(h, out, a) ==
  LET aa == Rd(h, a, 0)
      ab == Rd(h, a, 1)
      ac == Rd(h, a, 2)
      ad == Rd(h, a, 3)
      atx == Rd(h, a, 4)
      aty == Rd(h, a, 5)
      det0 == RSub(RMul(aa, ad), RMul(ab, ac))
      det == RDiv(One, det0)
  IN IF Falsy(det0) THEN h
     ELSE WrAll(h, out, <<RMul(ad, det), RMul(RNeg(ab), det),
                          RMul(RNeg(ac), det), RMul(aa, det),
                          RMul(RSub(RMul(ac, aty), RMul(ad, atx)), det),
                          RMul(RSub(RMul(ab, atx), RMul(aa, aty)), det)>>)

\* what mat2dInvert(out, a) returns
mat2dInvertRet(h, out, a) == IF Falsy(mat2dInvertDet(h, a)) THEN "null" ELSE out

mat2dMultiply(h, out, a, b) ==
  LET a0 == Rd(h, a, 0)
      a1 == Rd(h, a, 1)
      a2 == Rd(h, a, 2)
      a3 == Rd(h, a, 3)
      a4 == Rd(h, a, 4)
      a5 == Rd(h, a, 5)
      b0 == Rd(h, b, 0)
      b1 == Rd(h, b, 1)
      b2 == Rd(h, b, 2)
      b3 == Rd(h, b, 3)
      b4 == Rd(h, b, 4)
      b5 == Rd(h, b, 5)
  IN WrAll(h, out, <<Mul2(a0, b0, a2, b1), Mul2(a1, b0, a3, b1),
                     Mul2(a0, b2, a2, b3), Mul2(a1, b2, a3, b3),
                     RAdd(Mul2(a0, b4, a2, b5), a4),
                     RAdd(Mul2(a1, b4, a3, b5), a5)>>)

(***************************************************************************)
(* common.ts                                                               *)
(***************************************************************************)
EPSILON == Q(1, 1000000)

\* x <= EPSILON * m, computed without leaving 32 bits when both are finite:
\* x.n * m.d * 10^6 <= m.n * x.d  iff  x.n * m.d <= (m.n * x.d) div 10^6
LeEpsTimes(x, m) ==
  IF IsFinite(x) /\ IsFinite(m)
  THEN x[1] * m[2] <= (m[1] * x[2]) \div 1000000
  ELSE RLe(x, RMul(EPSILON, m))

\* the right-hand side max(1.0, |a|, |b|) of the tolerance test
MaxOneAbs(a, b) == MathMax(MathMax(One, MathAbs(a)), MathAbs(b))

\* common.ts equals(a, b), and the inlined test of the composite equals
equals(a, b) == LeEpsTimes(MathAbs(RSub(a, b)), MaxOneAbs(a, b))

(***************************************************************************)
(* Math.sqrt, Math.sin, Math.cos                                           *)
(***************************************************************************)
\* the integer square root of n, known to lie in lo .. hi - 1
RECURSIVE ISqrtIn(_, _, _)
ISqrtIn(n, lo, hi) ==
  IF hi - lo <= 1 THEN lo
  ELSE LET mid == (lo + hi) \div 2
       IN IF mid * mid <= n THEN ISqrtIn(n, mid, hi) ELSE ISqrtIn(n, lo, mid)

\* the integer square root of a natural number (of 31 bits)
ISqrt(n) == ISqrtIn(n, 0, IF n < 46340 THEN n + 1 ELSE 46341)

IsSquareInt(n) == n >= 0 /\ ISqrt(n) * ISqrt(n) = n

\* the numbers whose square root is a rational number; the model applies
\* Math.sqrt to these only (and to Infinity and NaN)
IsSquare(x) == IF x[2] = 0 THEN TRUE ELSE IsSquareInt(x[1]) /\ IsSquareInt(x[2])

MathSqrt(x) ==
  CASE x[2] = 0 -> (IF x = PosInf THEN PosInf ELSE NaN)
    [] x[2] > 0 /\ x[1] < 0 -> NaN
    [] x[2] > 0 /\ x[1] >= 0 /\ IsSquare(x) -> <<ISqrt(x[1]), ISqrt(x[2])>>

\* An angle is a record of its value in radians (a rational approximation,
\* used in comparisons only) and of the sine and the cosine of its half, the
\* only two functions of an angle that the modelled operations compute.
Angle(rad, s, c) == [rad |-> rad, sinHalf |-> s, cosHalf |-> c]
AngleZero == Angle(Zero, Zero, One)
AngleTiny == Angle(Q(1, 10000000), Q(1, 20000000), One)
AnglePi == Angle(Q(355, 113), One, Zero)
AngleA == Angle(Q(1287, 1000), Q(3, 5), Q(4, 5))
AngleB == Angle(Q(-1287, 1000), Q(-3, 5), Q(4, 5))
Angles == {AngleZero, AngleTiny, AnglePi, AngleA, AngleB}

(***************************************************************************)
(* quat (part_000) and quat2 (package.json)                                *)
(***************************************************************************)
\* a quatMultiply that reads a[3] again after out[0..2] have been written
quatMultiply_noCache(h, out, a, b) ==
  LET ax == Rd(h, a, 0)
      ay == Rd(h, a, 1)
      az == Rd(h, a, 2)
      aw == Rd(h, a, 3)
      bx == Rd(h, b, 0)
      by == Rd(h, b, 1)
      bz == Rd(h, b, 2)
      bw == Rd(h, b, 3)
      h1 == WrAll(h, out, <<
              RSub(RAdd(RAdd(RMul(ax, bw), RMul(aw, bx)), RMul(ay, bz)), RMul(az, by)),
              RSub(RAdd(RAdd(RMul(ay, bw), RMul(aw, by)), RMul(az, bx)), RMul(ax, bz)),
              RSub(RAdd(RAdd(RMul(az, bw), RMul(aw, bz)), RMul(ax, by)), RMul(ay, bx))>>)
  IN Wr(h1, out, 3,
        RSub(RSub(RSub(RMul(Rd(h1, a, 3), bw), RMul(Rd(h1, a, 0), bx)),
                  RMul(Rd(h1, a, 1), by)), RMul(Rd(h1, a, 2), bz)))

quatMultiply(h, out, a, b) ==
  LET ax == Rd(h, a, 0)
      ay == Rd(h, a, 1)
      az == Rd(h, a, 2)
      aw == Rd(h, a, 3)
      bx == Rd(h, b, 0)
      by == Rd(h, b, 1)
      bz == Rd(h, b, 2)
      bw == Rd(h, b, 3)
  IN WrAll(h, out, <<
       RSub(RAdd(RAdd(RMul(ax, bw), RMul(aw, bx)), RMul(ay, bz)), RMul(az, by)),
       RSub(RAdd(RAdd(RMul(ay, bw), RMul(aw, by)), RMul(az, bx)), RMul(ax, bz)),
       RSub(RAdd(RAdd(RMul(az, bw), RMul(aw, bz)), RMul(ax, by)), RMul(ay, bx)),
       RSub(RSub(RSub(RMul(aw, bw), RMul(ax, bx)), RMul(ay, by)), RMul(az, bz))>>)

quatDot(h, a, b) ==
  RAdd(RAdd(RAdd(RMul(Rd(h, a, 0), Rd(h, b, 0)), RMul(Rd(h, a, 1), Rd(h, b, 1))),
            RMul(Rd(h, a, 2), Rd(h, b, 2))), RMul(Rd(h, a, 3), Rd(h, b, 3)))

\* out[start] = vs[1]; out[start+1] = vs[2]; ...
RECURSIVE WrAtFrom(_, _, _, _, _)
WrAtFrom(h, o, start, vs, k) ==
  IF k > Len(vs) THEN h
  ELSE WrAtFrom(Wr(h, o, start + k - 1, vs[k]), o, start, vs, k + 1)

WrAt(h, o, start, vs) == WrAtFrom(h, o, start, vs, 1)

quat2Copy(h, out, a) ==
  LET h1 == Wr(h, out, 0, Rd(h, a, 0))
      h2 == Wr(h1, out, 1, Rd(h1, a, 1))
      h3 == Wr(h2, out, 2, Rd(h2, a, 2))
      h4 == Wr(h3, out, 3, Rd(h3, a, 3))
      h5 == Wr(h4, out, 4, Rd(h4, a, 4))
      h6 == Wr(h5, out, 5, Rd(h5, a, 5))
      h7 == Wr(h6, out, 6, Rd(h6, a, 6))
  IN Wr(h7, out, 7, Rd(h7, a, 7))

\* a quat2FromRotationTranslation that does not halve the translation
quat2FromRotationTranslation_noHalf(h, out, q, t) ==
  LET ax == Rd(h, t, 0)
      ay == Rd(h, t, 1)
      az == Rd(h, t, 2)
      bx == Rd(h, q, 0)
      by == Rd(h, q, 1)
      bz == Rd(h, q, 2)
      bw == Rd(h, q, 3)
  IN WrAll(h, out, <<bx, by, bz, bw,
       RSub(RAdd(RMul(ax, bw), RMul(ay, bz)), RMul(az, by)),
       RSub(RAdd(RMul(ay, bw), RMul(az, bx)), RMul(ax, bz)),
       RSub(RAdd(RMul(az, bw), RMul(ax, by)), RMul(ay, bx)),
       RSub(RSub(RMul(RNeg(ax), bx), RMul(ay, by)), RMul(az, bz))>>)

quat2FromRotationTranslation(h, out, q, t) ==
  LET ax == RMul(Rd(h, t, 0), Half)
      ay == RMul(Rd(h, t, 1), Half)
      az == RMul(Rd(h, t, 2), Half)
      bx == Rd(h, q, 0)
      by == Rd(h, q, 1)
      bz == Rd(h, q, 2)
      bw == Rd(h, q, 3)
  IN WrAll(h, out, <<bx, by, bz, bw,
       RSub(RAdd(RMul(ax, bw), RMul(ay, bz)), RMul(az, by)),
       RSub(RAdd(RMul(ay, bw), RMul(az, bx)), RMul(ax, bz)),
       RSub(RAdd(RMul(az, bw), RMul(ax, by)), RMul(ay, bx)),
       RSub(RSub(RMul(RNeg(ax), bx), RMul(ay, by)), RMul(az, bz))>>)

quat2GetTranslation(h, out, a) ==
  LET ax == Rd(h, a, 4)
      ay == Rd(h, a, 5)
      az == Rd(h, a, 6)
      aw == Rd(h, a, 7)
      bx == RNeg(Rd(h, a, 0))
      by == RNeg(Rd(h, a, 1))
      bz == RNeg(Rd(h, a, 2))
      bw == Rd(h, a, 3)
  IN WrAll(h, out, <<
       RMul(RSub(RAdd(RAdd(RMul(ax, bw), RMul(aw, bx)), RMul(ay, bz)), RMul(az, by)), Two),
       RMul(RSub(RAdd(RAdd(RMul(ay, bw), RMul(aw, by)), RMul(az, bx)), RMul(ax, bz)), Two),
       RMul(RSub(RAdd(RAdd(RMul(az, bw), RMul(aw, bz)), RMul(ax, by)), RMul(ay, bx)), Two)>>)

quat2Translate(h, out, a, v) ==
  LET ax1 == Rd(h, a, 0)
      ay1 == Rd(h, a, 1)
      az1 == Rd(h, a, 2)
      aw1 == Rd(h, a, 3)
      bx1 == RMul(Rd(h, v, 0), Half)
      by1 == RMul(Rd(h, v, 1), Half)
      bz1 == RMul(Rd(h, v, 2), Half)
      ax2 == Rd(h, a, 4)
      ay2 == Rd(h, a, 5)
      az2 == Rd(h, a, 6)
      aw2 == Rd(h, a, 7)
  IN WrAll(h, out, <<ax1, ay1, az1, aw1,
       RAdd(RSub(RAdd(RMul(aw1, bx1), RMul(ay1, bz1)), RMul(az1, by1)), ax2),
       RAdd(RSub(RAdd(RMul(aw1, by1), RMul(az1, bx1)), RMul(ax1, bz1)), ay2),
       RAdd(RSub(RAdd(RMul(aw1, bz1), RMul(ax1, by1)), RMul(ay1, bx1)), az2),
       RAdd(RSub(RSub(RMul(RNeg(ax1), bx1), RMul(ay1, by1)), RMul(az1, bz1)), aw2)>>)

\* the four components ax*bw + aw*bx + ay*bz - az*by, ... that the rotate
\* operations write for a = (ax, ay, az, aw) and b = (bx, by, bz, bw)
Rot4(ax, ay, az, aw, bx, by, bz, bw) ==
  <<RSub(RAdd(RAdd(RMul(ax, bw), RMul(aw, bx)), RMul(ay, bz)), RMul(az, by)),
    RSub(RAdd(RAdd(RMul(ay, bw), RMul(aw, by)), RMul(az, bx)), RMul(ax, bz)),
    RSub(RAdd(RAdd(RMul(az, bw), RMul(aw, bz)), RMul(ax, by)), RMul(ay, bx)),
    RSub(RSub(RSub(RMul(aw, bw), RMul(ax, bx)), RMul(ay, by)), RMul(az, bz))>>

quat2RotateByQuatAppend(h, out, a, q) ==
  LET qx == Rd(h, q, 0)
      qy == Rd(h, q, 1)
      qz == Rd(h, q, 2)
      qw == Rd(h, q, 3)
      h1 == WrAll(h, out, Rot4(Rd(h, a, 0), Rd(h, a, 1), Rd(h, a, 2), Rd(h, a, 3),
                                qx, qy, qz, qw))
  IN WrAt(h1, out, 4, Rot4(Rd(h1, a, 4), Rd(h1, a, 5), Rd(h1, a, 6), Rd(h1, a, 7),
                           qx, qy, qz, qw))

\* the four components qx*bw + qw*bx + qy*bz - qz*by, ... of the prepend
Pre4(qx, qy, qz, qw, bx, by, bz, bw) ==
  <<RSub(RAdd(RAdd(RMul(qx, bw), RMul(qw, bx)), RMul(qy, bz)), RMul(qz, by)),
    RSub(RAdd(RAdd(RMul(qy, bw), RMul(qw, by)), RMul(qz, bx)), RMul(qx, bz)),
    RSub(RAdd(RAdd(RMul(qz, bw), RMul(qw, bz)), RMul(qx, by)), RMul(qy, bx)),
    RSub(RSub(RSub(RMul(qw, bw), RMul(qx, bx)), RMul(qy, by)), RMul(qz, bz))>>

quat2RotateByQuatPrepend(h, out, q, a) ==
  LET qx == Rd(h, q, 0)
      qy == Rd(h, q, 1)
      qz == Rd(h, q, 2)
      qw == Rd(h, q, 3)
      h1 == WrAll(h, out, Pre4(qx, qy, qz, qw,
                                Rd(h, a, 0), Rd(h, a, 1), Rd(h, a, 2), Rd(h, a, 3)))
  IN WrAt(h1, out, 4, Pre4(qx, qy, qz, qw,
                           Rd(h1, a, 4), Rd(h1, a, 5), Rd(h1, a, 6), Rd(h1, a, 7)))

\* axis[0]^2 + axis[1]^2 + axis[2]^2, the argument of the square root
AxisSquaredLength(h, axis) ==
  RAdd(RAdd(RMul(Rd(h, axis, 0), Rd(h, axis, 0)), RMul(Rd(h, axis, 1), Rd(h, axis, 1))),
       RMul(Rd(h, axis, 2), Rd(h, axis, 2)))

quat2RotateAroundAxis(h, out, a, axis, ang) ==
  IF RLt(MathAbs(ang.rad), EPSILON) THEN quat2Copy(h, out, a)
  ELSE LET axisLength == MathSqrt(AxisSquaredLength(h, axis))
           s == ang.sinHalf
           bx == RDiv(RMul(s, Rd(h, axis, 0)), axisLength)
           by == RDiv(RMul(s, Rd(h, axis, 1)), axisLength)
           bz == RDiv(RMul(s, Rd(h, axis, 2)), axisLength)
           bw == ang.cosHalf
           h1 == WrAll(h, out, Rot4(Rd(h, a, 0), Rd(h, a, 1), Rd(h, a, 2), Rd(h, a, 3),
                                     bx, by, bz, bw))
       IN WrAt(h1, out, 4, Rot4(Rd(h1, a, 4), Rd(h1, a, 5), Rd(h1, a, 6), Rd(h1, a, 7),
                                bx, by, bz, bw))

\* a quat2Multiply whose dual part lacks the product of a's dual part and
\* b's real part
quat2Multiply_noCross(h, out, a, b) ==
  WrAll(h, out,
        Rot4(Rd(h, a, 0), Rd(h, a, 1), Rd(h, a, 2), Rd(h, a, 3),
             Rd(h, b, 0), Rd(h, b, 1), Rd(h, b, 2), Rd(h, b, 3))
          \o Rot4(Rd(h, a, 0), Rd(h, a, 1), Rd(h, a, 2), Rd(h, a, 3),
                  Rd(h, b, 4), Rd(h, b, 5), Rd(h, b, 6), Rd(h, b, 7)))

quat2Multiply(h, out, a, b) ==
  LET ax0 == Rd(h, a, 0)
      ay0 == Rd(h, a, 1)
      az0 == Rd(h, a, 2)
      aw0 == Rd(h, a, 3)
      bx1 == Rd(h, b, 4)
      by1 == Rd(h, b, 5)
      bz1 == Rd(h, b, 6)
      bw1 == Rd(h, b, 7)
      ax1 == Rd(h, a, 4)
      ay1 == Rd(h, a, 5)
      az1 == Rd(h, a, 6)
      aw1 == Rd(h, a, 7)
      bx0 == Rd(h, b, 0)
      by0 == Rd(h, b, 1)
      bz0 == Rd(h, b, 2)
      bw0 == Rd(h, b, 3)
  IN WrAll(h, out, <<
       RSub(RAdd(RAdd(RMul(ax0, bw0), RMul(aw0, bx0)), RMul(ay0, bz0)), RMul(az0, by0)),
       RSub(RAdd(RAdd(RMul(ay0, bw0), RMul(aw0, by0)), RMul(az0, bx0)), RMul(ax0, bz0)),
       RSub(RAdd(RAdd(RMul(az0, bw0), RMul(aw0, bz0)), RMul(ax0, by0)), RMul(ay0, bx0)),
       RSub(RSub(RSub(RMul(aw0, bw0), RMul(ax0, bx0)), RMul(ay0, by0)), RMul(az0, bz0)),
       RSub(RAdd(RAdd(RAdd(RSub(RAdd(RAdd(RMul(ax0, bw1), RMul(aw0, bx1)), RMul(ay0, bz1)),
                                RMul(az0, by1)),
                           RMul(ax1, bw0)), RMul(aw1, bx0)), RMul(ay1, bz0)), RMul(az1, by0)),
       RSub(RAdd(RAdd(RAdd(RSub(RAdd(RAdd(RMul(ay0, bw1), RMul(aw0, by1)), RMul(az0, bx1)),
                                RMul(ax0, bz1)),
                           RMul(ay1, bw0)), RMul(aw1, by0)), RMul(az1, bx0)), RMul(ax1, bz0)),
       RSub(RAdd(RAdd(RAdd(RSub(RAdd(RAdd(RMul(az0, bw1), RMul(aw0, bz1)), RMul(ax0, by1)),
                                RMul(ay0, bx1)),
                           RMul(az1, bw0)), RMul(aw1, bz0)), RMul(ax1, by0)), RMul(ay1, bx0)),
       RSub(RSub(RSub(RAdd(RSub(RSub(RSub(RMul(aw0, bw1), RMul(ax0, bx1)), RMul(ay0, by1)),
                                RMul(az0, bz1)),
                           RMul(aw1, bw0)), RMul(ax1, bx0)), RMul(ay1, by0)), RMul(az1, bz0))>>)

(***************************************************************************)
(* rect.ts                                                                 *)
(***************************************************************************)
Rect(x, y, w, h) == [x |-> x, y |-> y, width |-> w, height |-> h]

rectCreate == Rect(Zero, Zero, One, One)

rectCenterX(h, rect) == RAdd(h[rect].x, RDiv(h[rect].width, Two))

rectSetCenterX(h, out, rect, cx) ==
  [h EXCEPT ![out].x = RSub(cx, RDiv(h[rect].width, Two))]

rectCenterY(h, rect) == RAdd(h[rect].y, RDiv(h[rect].height, Two))

rectSetCenterY(h, out, rect, cy) ==
  [h EXCEPT ![out].y = RSub(cy, RDiv(h[rect].height, Two))]

rectCopyCenter(h, out, source, target) ==
  LET h1 == rectSetCenterX(h, out, source, rectCenterX(h, target))
  IN rectSetCenterY(h1, out, source, rectCenterY(h1, target))

rectSetAspectRatio(h, out, source, aspectRatio, cmp) ==
  LET sy == IF REq(h[source].height, Zero)
            THEN aspectRatio
            ELSE RDiv(RMul(h[source].width, aspectRatio), h[source].height)
      s == Compare(cmp, One, sy)
      h1 == [h EXCEPT ![out].width = RMul(h[source].width, s)]
      h2 == [h1 EXCEPT ![out].height = RMul(h1[source].height, s)]
  IN rectCopyCenter(h2, out, out, source)

\* a rectFit that scales the height by the source's width
rectFit_wrongHeight(h, out, source, target, cmp) ==
  LET sx == RDiv(h[target].width, h[source].width)
      sy == RDiv(h[target].height, h[source].height)
      s == Compare(cmp, sx, sy)
      h1 == [h EXCEPT ![out].width = RMul(h[source].width, s)]
      h2 == [h1 EXCEPT ![out].height = RMul(h1[source].width, s)]
  IN rectCopyCenter(h2, out, out, target)

rectFit(h, out, source, target, cmp) ==
  LET sx == RDiv(h[target].width, h[source].width)
      sy == RDiv(h[target].height, h[source].height)
      s == Compare(cmp, sx, sy)
      h1 == [h EXCEPT ![out].width = RMul(h[source].width, s)]
      h2 == [h1 EXCEPT ![out].height = RMul(h1[source].height, s)]
  IN rectCopyCenter(h2, out, out, target)

rectContain(h, out, source, target) == rectFit(h, out, source, target, "min")

rectCover(h, out, source, target) == rectFit(h, out, source, target, "max")

(***************************************************************************)
(* SpecRect: one call of a rect operation on a source, a target and an out *)
(* rect, where out is a third object, the source or the target.            *)
(***************************************************************************)
Positions == {<<R(0), R(0)>>, <<R(1), R(0)>>, <<R(0), R(1)>>, <<R(-2), R(3)>>}
Sizes == {R(i) : i \in 0..MaxSize}
Rects == {Rect(p[1], p[2], w, h) : p \in Positions, w \in Sizes, h \in Sizes}

\* the 16:9 source and the 400x300 target centred at (200,150) of the spec
Rect16x9 == Rect(Zero, Zero, R(16), R(9))
Rect400x300 == Rect(Zero, Zero, R(400), R(300))

OutRects == {rectCreate, Rect(R(5), R(7), R(11), R(13))}
Ratios == {Half, One, Two, Q(16, 9)}
RectIds == {"s", "t", "o"}

InitRect ==
  /\ Fresh
  /\ \E s \in Rects \cup {Rect16x9}, t \in Rects \cup {Rect400x300}, o \in OutRects :
       heap = [i \in RectIds |-> IF i = "s" THEN s ELSE IF i = "t" THEN t ELSE o]
  /\ pre = heap

RectFit(out, cmp) ==
  /\ Done([op |-> "rectFit", out |-> out, source |-> "s", target |-> "t", cmp |-> cmp], out)
  /\ heap' = rectFit(heap, out, "s", "t", cmp)

RectContain(out) ==
  /\ Done([op |-> "rectContain", out |-> out, source |-> "s", target |-> "t", cmp |-> "min"], out)
  /\ heap' = rectContain(heap, out, "s", "t")

RectCover(out) ==
  /\ Done([op |-> "rectCover", out |-> out, source |-> "s", target |-> "t", cmp |-> "max"], out)
  /\ heap' = rectCover(heap, out, "s", "t")

RectSetAspectRatio(out, ar, cmp) ==
  /\ Done([op |-> "rectSetAspectRatio", out |-> out, source |-> "s", ar |-> ar, cmp |-> cmp], out)
  /\ heap' = rectSetAspectRatio(heap, out, "s", ar, cmp)

NextRect ==
  \/ \E out \in RectIds, cmp \in {"min", "max"} : RectFit(out, cmp)
  \/ \E out \in RectIds : RectContain(out)
  \/ \E out \in RectIds : RectCover(out)
  \/ \E out \in {"o", "s"}, ar \in Ratios, cmp \in {"min", "max"} : RectSetAspectRatio(out, ar, cmp)

SpecRect == InitRect /\ [][NextRect]_vars

\* the heap of the same call made with a distinct out object "f" that holds
\* the values out held; every input keeps its values
RectCallDistinct ==
  LET h == ("f" :> pre[call.out]) @@ pre
  IN CASE call.op = "rectFit" -> rectFit(h, "f", call.source, call.target, call.cmp)
       [] call.op = "rectContain" -> rectContain(h, "f", call.source, call.target)
       [] call.op = "rectCover" -> rectCover(h, "f", call.source, call.target)
       [] call.op = "rectSetAspectRatio" -> rectSetAspectRatio(h, "f", call.source, call.ar, call.cmp)

RectOps == {"rectFit", "rectContain", "rectCover", "rectSetAspectRatio"}

\* C1: for rectFit, rectContain, rectCover and rectSetAspectRatio a call whose
\* out is the source or the target object leaves in out the x, y, width and
\* height that the call with a distinct out object and equal input values
\* leaves in its out.
C1_AliasedRectCallEqualsDistinct ==
  (phase = "done" /\ call.op \in RectOps /\ call.out # "o")
    => heap[call.out] = RectCallDistinct["f"]

Positive(r) == RGt(r.width, Zero) /\ RGt(r.height, Zero)

\* C8: for a source and a target of positive width and height and a distinct
\* out, rectContain leaves in out the source's aspect ratio, a size within
\* the target's that touches it in at least one dimension, and the target's
\* center; rectCover does the same with a size that is at least the target's.
C8_ContainCoverGeometry ==
  (phase = "done" /\ call.op \in {"rectContain", "rectCover"} /\ call.out = "o"
     /\ Positive(pre["s"]) /\ Positive(pre["t"]))
    => LET o == heap["o"]
           s == pre["s"]
           t == pre["t"]
       IN /\ RMul(o.width, s.height) = RMul(o.height, s.width)
          /\ IF call.op = "rectContain"
             THEN RLe(o.width, t.width) /\ RLe(o.height, t.height)
             ELSE RGe(o.width, t.width) /\ RGe(o.height, t.height)
          /\ o.width = t.width \/ o.height = t.height
          /\ rectCenterX(heap, "o") = rectCenterX(pre, "t")
          /\ rectCenterY(heap, "o") = rectCenterY(pre, "t")
          /\ (s = Rect16x9 /\ t = Rect400x300 /\ call.op = "rectContain")
               => o = Rect(Zero, Q(75, 2), R(400), R(225))

\* a contain call that letterboxes: the out rect is strictly lower than the
\* target and as wide
C8_Witness ==
  /\ phase = "done" /\ call.op = "rectContain" /\ call.out = "o"
  /\ pre["s"] = Rect16x9 /\ pre["t"] = Rect400x300
  /\ heap["o"].width = R(400) /\ heap["o"].height = R(225)


(***************************************************************************)
(* SpecArr: one call of a mat2, mat2d, quat or quat2 operation, where out  *)
(* is an object of its own or one of the inputs.  SpecMat and SpecQuat are *)
(* its two halves.                                                         *)
(*   mat2:  m, n inputs, mo out      mat2d: d, e inputs, do out            *)
(*   quat:  q, p inputs, qo out      quat2: u, w inputs, uo out,           *)
(*                                          v a vec3, q a quat             *)
(*   round trip of C7: rq a unit quat, rt a vec3, ro a quat2, rv a vec3    *)
(***************************************************************************)
Vals == {R(i) : i \in (-MaxVal)..MaxVal}
Vec(a, b, c) == <<R(a), R(b), R(c)>>
Vec4(a, b, c, d) == <<R(a), R(b), R(c), R(d)>>

Mat2s == {<<a, b, c, d>> : a \in Vals, b \in Vals, c \in Vals, d \in Vals}
              \cup {Vec4(2, 0, 0, 2)}
Mat2Others == {Vec4(2, 0, 0, 2), Vec4(1, 2, 3, 4), Vec4(0, 1, 1, 0)}
Mat2Outs == {Vec4(1, 0, 0, 1), Vec4(7, 8, 9, 6)}

Translations == {<<R(0), R(0)>>, <<R(5), R(5)>>, <<R(1), R(-2)>>}
Mat2ds == {m \o t : m \in Mat2s, t \in Translations}
Mat2dOthers == {<<R(1), R(0), R(0), R(1), R(5), R(5)>>,
                <<R(1), R(2), R(3), R(4), R(5), R(6)>>}
Mat2dOut == <<R(1), R(0), R(0), R(1), R(0), R(0)>>

Quats == {<<a, b, c, d>> : a \in Vals, b \in Vals, c \in Vals, d \in Vals}
UnitQuats == {Vec4(0, 0, 0, 1), Vec4(1, 0, 0, 0), Vec4(0, 1, 0, 0), Vec4(0, 0, 1, 0),
              Vec4(0, 0, 0, -1), Vec4(0, -1, 0, 0),
              <<Q(3, 5), Q(4, 5), Zero, Zero>>, <<Zero, Q(3, 5), Zero, Q(4, 5)>>,
              <<Q(-4, 5), Zero, Zero, Q(3, 5)>>,
              <<Half, Half, Half, Half>>, <<Q(-1, 2), Half, Q(-1, 2), Half>>,
              <<Q(2, 3), Q(1, 3), Q(2, 3), Zero>>, <<Q(1, 3), Q(-2, 3), Zero, Q(2, 3)>>}
QuatOthers == {Vec4(0, 0, 0, 1), Vec4(1, 2, 3, 4), <<Q(3, 5), Zero, Q(4, 5), Zero>>}
QuatOut == Vec4(0, 0, 0, 1)

Duals == {Vec4(0, 0, 0, 0), Vec4(1, -2, 3, 1)}
Quat2Others == {Vec4(0, 0, 0, 1) \o Vec4(1, 2, 3, 0), Vec4(1, 2, 0, -1) \o Vec4(2, 0, 1, 1)}
Quat2Out == Vec4(0, 0, 0, 1) \o Vec4(0, 0, 0, 0)
Axes == {Vec(0, 0, 1), Vec(1, 2, 2)}
Rotors == {Vec4(0, 0, 0, 1), <<Q(3, 5), Zero, Q(4, 5), Zero>>}
Vec3s == {<<a, b, c>> : a \in Vals, b \in Vals, c \in Vals}

InitMat2 ==
  \E m \in Mat2s, n \in Mat2Others, mo \in Mat2Outs :
    heap = [i \in {"m", "n", "mo"} |-> IF i = "m" THEN m ELSE IF i = "n" THEN n ELSE mo]

InitMat2d ==
  \E d \in Mat2ds, e \in Mat2dOthers :
    heap = [i \in {"d", "e", "do"} |-> IF i = "d" THEN d ELSE IF i = "e" THEN e ELSE Mat2dOut]

InitQuat ==
  \E q \in Quats, p \in QuatOthers :
    heap = [i \in {"q", "p", "qo"} |-> IF i = "q" THEN q ELSE IF i = "p" THEN p ELSE QuatOut]

InitQuat2 ==
  \E r \in Quats, dl \in Duals, w \in Quat2Others, v \in Axes, q \in Rotors :
    heap = [i \in {"u", "w", "uo", "v", "q"} |->
              CASE i = "u" -> r \o dl
                [] i = "w" -> w
                [] i = "uo" -> Quat2Out
                [] i = "v" -> v
                [] i = "q" -> q]

InitRoundTrip ==
  \E rq \in UnitQuats, rt \in Vec3s :
    heap = [i \in {"rq", "rt", "ro", "rv"} |->
              CASE i = "rq" -> rq
                [] i = "rt" -> rt
                [] i = "ro" -> Quat2Out
                [] i = "rv" -> Vec(9, 9, 9)]

InitMat == Fresh /\ (InitMat2 \/ InitMat2d) /\ pre = heap
InitQuatFamily == Fresh /\ (InitQuat \/ InitQuat2 \/ InitRoundTrip) /\ pre = heap
InitArr == Fresh /\ (InitMat2 \/ InitMat2d \/ InitQuat \/ InitQuat2 \/ InitRoundTrip) /\ pre = heap

Has(i) == i \in DOMAIN heap

Mat2Transpose(out) ==
  /\ Has("m")
  /\ Done([op |-> "mat2Transpose", out |-> out, a |-> "m"], out)
  /\ heap' = mat2Transpose(heap, out, "m")

Mat2Adjoint(out) ==
  /\ Has("m")
  /\ Done([op |-> "mat2Adjoint", out |-> out, a |-> "m"], out)
  /\ heap' = mat2Adjoint(heap, out, "m")

Mat2Invert(out) ==
  /\ Has("m")
  /\ Done([op |-> "mat2Invert", out |-> out, a |-> "m"], mat2InvertRet(heap, out, "m"))
  /\ heap' = mat2Invert(heap, out, "m")

Mat2Multiply(out, a, b) ==
  /\ Has("m")
  /\ Done([op |-> "mat2Multiply", out |-> out, a |-> a, b |-> b], out)
  /\ heap' = mat2Multiply(heap, out, a, b)

\* mat2Multiply(mo, m, mat2Invert(n, m)); a null second operand makes
\* mat2Multiply throw a TypeError at its first read
Mat2InvertMultiply ==
  /\ Has("m")
  /\ LET h1 == mat2Invert(heap, "n", "m")
         r == mat2InvertRet(heap, "n", "m")
     IN /\ Done([op |-> "mat2InvertMultiply", out |-> "mo", a |-> "m", tmp |-> "n"],
                IF r = "null" THEN "TypeError" ELSE "mo")
        /\ heap' = IF r = "null" THEN h1 ELSE mat2Multiply(h1, "mo", "m", r)

Mat2dInvert(out) ==
  /\ Has("d")
  /\ Done([op |-> "mat2dInvert", out |-> out, a |-> "d"], mat2dInvertRet(heap, out, "d"))
  /\ heap' = mat2dInvert(heap, out, "d")

Mat2dMultiply(out, a, b) ==
  /\ Has("d")
  /\ Done([op |-> "mat2dMultiply", out |-> out, a |-> a, b |-> b], out)
  /\ heap' = mat2dMultiply(heap, out, a, b)

\* mat2dMultiply(do, d, mat2dInvert(e, d))
Mat2dInvertMultiply ==
  /\ Has("d")
  /\ LET h1 == mat2dInvert(heap, "e", "d")
         r == mat2dInvertRet(heap, "e", "d")
     IN /\ Done([op |-> "mat2dInvertMultiply", out |-> "do", a |-> "d", tmp |-> "e"],
                IF r = "null" THEN "TypeError" ELSE "do")
        /\ heap' = IF r = "null" THEN h1 ELSE mat2dMultiply(h1, "do", "d", r)

NextMat ==
  \/ \E out \in {"mo", "m"} : Mat2Transpose(out)
  \/ \E out \in {"mo", "m"} : Mat2Adjoint(out)
  \/ \E out \in {"mo", "m"} : Mat2Invert(out)
  \/ \E out \in {"mo", "m", "n"}, b \in {"n", "m"} : Mat2Multiply(out, "m", b)
  \/ Mat2InvertMultiply
  \/ \E out \in {"do", "d"} : Mat2dInvert(out)
  \/ \E out \in {"do", "d", "e"}, b \in {"e", "d"} : Mat2dMultiply(out, "d", b)
  \/ Mat2dInvertMultiply

SpecMat == InitMat /\ [][NextMat]_vars

QuatMultiply(out, a, b) ==
  /\ Has("p")
  /\ Done([op |-> "quatMultiply", out |-> out, a |-> a, b |-> b], out)
  /\ heap' = quatMultiply(heap, out, a, b)

Quat2Translate(out) ==
  /\ Has("u")
  /\ Done([op |-> "quat2Translate", out |-> out, a |-> "u", v |-> "v"], out)
  /\ heap' = quat2Translate(heap, out, "u", "v")

Quat2Multiply(out, a, b) ==
  /\ Has("u")
  /\ Done([op |-> "quat2Multiply", out |-> out, a |-> a, b |-> b], out)
  /\ heap' = quat2Multiply(heap, out, a, b)

Quat2RotateByQuatAppend(out) ==
  /\ Has("u")
  /\ Done([op |-> "quat2RotateByQuatAppend", out |-> out, a |-> "u", q |-> "q"], out)
  /\ heap' = quat2RotateByQuatAppend(heap, out, "u", "q")

Quat2RotateByQuatPrepend(out) ==
  /\ Has("u")
  /\ Done([op |-> "quat2RotateByQuatPrepend", out |-> out, q |-> "q", a |-> "u"], out)
  /\ heap' = quat2RotateByQuatPrepend(heap, out, "q", "u")

Quat2RotateAroundAxis(out, ang) ==
  /\ Has("u")
  /\ IsSquare(AxisSquaredLength(heap, "v"))
  /\ Done([op |-> "quat2RotateAroundAxis", out |-> out, a |-> "u", axis |-> "v", ang |-> ang], out)
  /\ heap' = quat2RotateAroundAxis(heap, out, "u", "v", ang)

\* quat2GetTranslation(rv, quat2FromRotationTranslation(ro, rq, rt))
Quat2TranslationRoundTrip ==
  /\ Has("rq")
  /\ Done([op |-> "quat2TranslationRoundTrip", out |-> "rv", q |-> "rq", t |-> "rt"], "rv")
  /\ heap' = quat2GetTranslation(quat2FromRotationTranslation(heap, "ro", "rq", "rt"), "rv", "ro")

NextQuat ==
  \/ \E out \in {"qo", "q", "p"}, b \in {"p", "q"} : QuatMultiply(out, "q", b)
  \/ \E out \in {"uo", "u"} : Quat2Translate(out)
  \/ \E out \in {"uo", "u", "w"}, b \in {"w", "u"} : Quat2Multiply(out, "u", b)
  \/ \E out \in {"uo", "u"} : Quat2RotateByQuatAppend(out)
  \/ \E out \in {"uo", "u"} : Quat2RotateByQuatPrepend(out)
  \/ \E out \in {"uo", "u"}, ang \in Angles : Quat2RotateAroundAxis(out, ang)
  \/ Quat2TranslationRoundTrip

SpecQuat == InitQuatFamily /\ [][NextQuat]_vars

NextArr == NextMat \/ NextQuat

SpecArr == InitArr /\ [][NextArr]_vars

\* C2: mat2Invert and mat2dInvert return null exactly when the determinant
\* a[0]*a[3] - a[1]*a[2] of the input is zero, and then leave every object
\* as it was; for a nonzero determinant they return out.
C2_InvertNullIffSingular ==
  (phase = "done" /\ call.op \in {"mat2Invert", "mat2dInvert"})
    => LET det == RSub(RMul(Rd(pre, call.a, 0), Rd(pre, call.a, 3)),
                       RMul(Rd(pre, call.a, 1), Rd(pre, call.a, 2)))
       IN /\ (ret = "null") <=> (det = Zero)
          /\ (ret = "null") => (heap = pre)
          /\ (ret # "null") => (ret = call.out)

\* a singular input whose inversion into an out that is not the identity
\* returned null
C2_Witness ==
  /\ phase = "done" /\ call.op = "mat2Invert" /\ call.out = "mo"
  /\ ret = "null" /\ pre["m"] = Vec4(1, 1, 1, 1) /\ pre["mo"] = Vec4(7, 8, 9, 6)

\* C3: for a Mat2 M of nonzero determinant mat2Multiply(out, M, mat2Invert(tmp, M))
\* is [1,0,0,1], for a Mat2d it is [1,0,0,1,0,0]; [2,0,0,2] inverts to
\* [0.5,0,0,0.5] and [1,0,0,1,5,5] to [1,0,0,1,-5,-5].
C3_InverseRoundTrip ==
  /\ (phase = "done" /\ call.op = "mat2InvertMultiply" /\ mat2Determinant(pre, "m") # Zero)
       => /\ heap["mo"] = Vec4(1, 0, 0, 1)
          /\ (pre["m"] = Vec4(2, 0, 0, 2)) => (heap["n"] = <<Half, Zero, Zero, Half>>)
  /\ (phase = "done" /\ call.op = "mat2dInvertMultiply" /\ mat2dInvertDet(pre, "d") # Zero)
       => /\ heap["do"] = <<R(1), R(0), R(0), R(1), R(0), R(0)>>
          /\ (pre["d"] = <<R(1), R(0), R(0), R(1), R(5), R(5)>>)
               => (heap["e"] = <<R(1), R(0), R(0), R(1), R(-5), R(-5)>>)

\* the round trip of a Mat2d that is neither diagonal nor free of translation
C3_Witness ==
  /\ phase = "done" /\ call.op = "mat2dInvertMultiply"
  /\ pre["d"] = <<R(1), R(1), R(-1), R(1), R(1), R(-2)>>
  /\ heap["e"] = <<Half, Q(-1, 2), Half, Half, Q(1, 2), Q(3, 2)>>
  /\ ret = "do"

QuatUnit(q) ==
  RAdd(RAdd(RAdd(RMul(q[1], q[1]), RMul(q[2], q[2])), RMul(q[3], q[3])), RMul(q[4], q[4])) = One

\* C7: for a unit quaternion q and a translation t, quat2GetTranslation of
\* quat2FromRotationTranslation(out, q, t) is t.
C7_TranslationRoundTrip ==
  (phase = "done" /\ call.op = "quat2TranslationRoundTrip" /\ QuatUnit(pre["rq"]))
    => /\ heap["rv"] = pre["rt"]
       /\ \A i \in 1..3 : equals(heap["rv"][i], pre["rt"][i])

\* a round trip through a rotation that is not about a coordinate axis
C7_Witness ==
  /\ phase = "done" /\ call.op = "quat2TranslationRoundTrip"
  /\ pre["rq"] = <<Q(2, 3), Q(1, 3), Q(2, 3), Zero>>
  /\ pre["rt"] = Vec(1, -1, 1)
  /\ heap["ro"] # pre["ro"]

AliasOps == {"mat2Transpose", "mat2Adjoint", "mat2Multiply", "mat2Invert",
             "mat2dMultiply", "mat2dInvert", "quatMultiply", "quat2Translate",
             "quat2Multiply", "quat2RotateByQuatAppend", "quat2RotateByQuatPrepend",
             "quat2RotateAroundAxis"}

\* the heap of the same call made with a distinct out object "f" that holds
\* the values out held; every input keeps its values
ArrCallDistinct ==
  LET h == ("f" :> pre[call.out]) @@ pre
  IN CASE call.op = "mat2Transpose" -> mat2Transpose(h, "f", call.a)
       [] call.op = "mat2Adjoint" -> mat2Adjoint(h, "f", call.a)
       [] call.op = "mat2Multiply" -> mat2Multiply(h, "f", call.a, call.b)
       [] call.op = "mat2Invert" -> mat2Invert(h, "f", call.a)
       [] call.op = "mat2dMultiply" -> mat2dMultiply(h, "f", call.a, call.b)
       [] call.op = "mat2dInvert" -> mat2dInvert(h, "f", call.a)
       [] call.op = "quatMultiply" -> quatMultiply(h, "f", call.a, call.b)
       [] call.op = "quat2Translate" -> quat2Translate(h, "f", call.a, call.v)
       [] call.op = "quat2Multiply" -> quat2Multiply(h, "f", call.a, call.b)
       [] call.op = "quat2RotateByQuatAppend" -> quat2RotateByQuatAppend(h, "f", call.a, call.q)
       [] call.op = "quat2RotateByQuatPrepend" -> quat2RotateByQuatPrepend(h, "f", call.q, call.a)
       [] call.op = "quat2RotateAroundAxis" -> quat2RotateAroundAxis(h, "f", call.a, call.axis, call.ang)

\* the objects a call reads
CallInputs == {call[k] : k \in DOMAIN call \cap {"a", "b", "v", "q", "axis"}}

\* C10: for the twelve mat2, mat2d, quat and quat2 operations of AliasOps a
\* call whose out is one of its inputs leaves in out the component values
\* that the call with a distinct out and equal input values leaves in its
\* out.
C10_AliasedArrCallEqualsDistinct ==
  (phase = "done" /\ call.op \in AliasOps /\ call.out \in CallInputs)
    => heap[call.out] = ArrCallDistinct["f"]

\* an adjugate computed in place that changed all four elements
C10_Witness ==
  /\ phase = "done" /\ call.op = "mat2Adjoint" /\ call.out = "m"
  /\ pre["m"] = Vec4(1, -1, 1, 0) /\ heap["m"] = Vec4(0, 1, -1, 1)

(***************************************************************************)
(* Constructors and the storage type (common.ts ARRAY_TYPE)                *)
(*                                                                         *)
(* A constructed object is its storage type and its values.  new T(n) of a *)
(* Float32Array is zero-filled; new Array(n) holds n holes, which read as  *)
(* undefined.  A Float32Array rounds what is stored to 32 bits; the values *)
(* constructed here are small integers, which it stores exactly.           *)
(***************************************************************************)
MaxObjs == 2

ArrayTypes == {"Array", "Float32Array"}

RECURSIVE Zeros(_)
Zeros(n) == IF n = 0 THEN <<>> ELSE Append(Zeros(n - 1), Zero)

\* new T(n)
New(T, n) == [stype |-> T, val |-> IF T = "Float32Array" THEN Zeros(n) ELSE Pad(<<>>, n)]

\* out[i] = v on an object under construction
Put(o, i, v) == [o EXCEPT !.val[i + 1] = v]

RECURSIVE PutFrom(_, _, _)
PutFrom(o, vs, k) == IF k > Len(vs) THEN o ELSE PutFrom(Put(o, k - 1, vs[k]), vs, k + 1)

\* out[0] = vs[1]; out[1] = vs[2]; ...
PutAll(o, vs) == PutFrom(o, vs, 1)

\* out[i] = 0 for the listed indices unless the storage is a Float32Array
ZeroFill(o, idx) ==
  IF ARRAY_TYPE # "Float32Array"
  THEN [o EXCEPT !.val = [i \in DOMAIN o.val |-> IF (i - 1) \in idx THEN Zero ELSE o.val[i]]]
  ELSE o

vec2Create == ZeroFill(New(ARRAY_TYPE, 2), {0, 1})
vec2Clone(a) == PutAll(New("Array", 2), <<a[1], a[2]>>)
vec2FromValues(x, y) == PutAll(New(ARRAY_TYPE, 2), <<x, y>>)

vec3Create == ZeroFill(New(ARRAY_TYPE, 3), {0, 1, 2})
vec3Clone(a) == PutAll(New(ARRAY_TYPE, 3), <<a[1], a[2], a[3]>>)
vec3FromValues(x, y, z) == PutAll(New(ARRAY_TYPE, 3), <<x, y, z>>)

vec4Create == ZeroFill(New(ARRAY_TYPE, 4), {0, 1, 2, 3})
vec4Clone(a) == PutAll(New(ARRAY_TYPE, 4), <<a[1], a[2], a[3], a[4]>>)
vec4FromValues(x, y, z, w) == PutAll(New(ARRAY_TYPE, 4), <<x, y, z, w>>)

mat2Create == Put(Put(ZeroFill(New(ARRAY_TYPE, 4), {1, 2}), 0, One), 3, One)
mat2Clone(a) == PutAll(New(ARRAY_TYPE, 4), <<a[1], a[2], a[3], a[4]>>)
mat2FromValues(m00, m01, m10, m11) == PutAll(New(ARRAY_TYPE, 4), <<m00, m01, m10, m11>>)

mat2dCreate == Put(Put(ZeroFill(New(ARRAY_TYPE, 6), {1, 2, 4, 5}), 0, One), 3, One)
mat2dClone(a) == PutAll(New(ARRAY_TYPE, 6), <<a[1], a[2], a[3], a[4], a[5], a[6]>>)
mat2dFromValues(a, b, c, d, tx, ty) == PutAll(New(ARRAY_TYPE, 6), <<a, b, c, d, tx, ty>>)

quatCreate == Put(ZeroFill(New(ARRAY_TYPE, 4), {0, 1, 2}), 3, One)
quatClone(a) == vec4Clone(a)
quatFromValues(x, y, z, w) == vec4FromValues(x, y, z, w)

quat2Create == Put(ZeroFill(New(ARRAY_TYPE, 8), {0, 1, 2, 4, 5, 6, 7}), 3, One)
quat2Clone(a) ==
  PutAll(New(ARRAY_TYPE, 8), <<a[1], a[2], a[3], a[4], a[5], a[6], a[7], a[8]>>)
quat2FromValues(x1, y1, z1, w1, x2, y2, z2, w2) ==
  PutAll(New(ARRAY_TYPE, 8), <<x1, y1, z1, w1, x2, y2, z2, w2>>)

(***************************************************************************)
(* SpecType: sequences of setMatrixArrayType and constructor calls.  The   *)
(* heap is the sequence of the objects constructed so far; stype[i] is the *)
(* storage type of the i-th and born[i] what ARRAY_TYPE held when it was   *)
(* constructed.                                                            *)
(***************************************************************************)
InitType == Fresh /\ heap = <<>> /\ pre = <<>>

SetMatrixArrayType(type) ==
  /\ ARRAY_TYPE' = type
  /\ call' = [op |-> "setMatrixArrayType", type |-> type]
  /\ UNCHANGED <<phase, heap, pre, ret, stype, born, stack>>

\* a constructor call that returned the object o
Construct(name, o) ==
  /\ Len(heap) < MaxObjs
  /\ heap' = Append(heap, o.val)
  /\ stype' = Append(stype, o.stype)
  /\ born' = Append(born, ARRAY_TYPE)
  /\ call' = [op |-> name]
  /\ ret' = Len(heap) + 1
  /\ UNCHANGED <<phase, pre, ARRAY_TYPE, stack>>

CloneInputs == {<<R(1), R(2), R(3), R(4), R(5), R(6), R(7), R(8)>>}
ArgInputs == {R(1), R(2)}

NextType ==
  \/ \E type \in ArrayTypes : SetMatrixArrayType(type)
  \/ Construct("vec2Create", vec2Create)
  \/ \E a \in CloneInputs : Construct("vec2Clone", vec2Clone(a))
  \/ \E x \in ArgInputs : Construct("vec2FromValues", vec2FromValues(x, R(2)))
  \/ Construct("vec3Create", vec3Create)
  \/ \E a \in CloneInputs : Construct("vec3Clone", vec3Clone(a))
  \/ \E x \in ArgInputs : Construct("vec3FromValues", vec3FromValues(x, R(2), R(3)))
  \/ Construct("vec4Create", vec4Create)
  \/ \E a \in CloneInputs : Construct("vec4Clone", vec4Clone(a))
  \/ \E x \in ArgInputs : Construct("vec4FromValues", vec4FromValues(x, R(2), R(3), R(4)))
  \/ Construct("mat2Create", mat2Create)
  \/ \E a \in CloneInputs : Construct("mat2Clone", mat2Clone(a))
  \/ \E x \in ArgInputs : Construct("mat2FromValues", mat2FromValues(x, R(2), R(3), R(5)))
  \/ Construct("mat2dCreate", mat2dCreate)
  \/ \E a \in CloneInputs : Construct("mat2dClone", mat2dClone(a))
  \/ \E x \in ArgInputs :
       Construct("mat2dFromValues", mat2dFromValues(x, R(2), R(3), R(4), R(5), R(6)))
  \/ Construct("quatCreate", quatCreate)
  \/ \E a \in CloneInputs : Construct("quatClone", quatClone(a))
  \/ \E x \in ArgInputs : Construct("quatFromValues", quatFromValues(x, R(2), R(3), R(6)))
  \/ Construct("quat2Create", quat2Create)
  \/ \E a \in CloneInputs : Construct("quat2Clone", quat2Clone(a))
  \/ \E x \in ArgInputs :
       Construct("quat2FromValues",
                 quat2FromValues(x, R(2), R(3), R(4), R(5), R(6), R(7), R(8)))

SpecType == InitType /\ [][NextType]_vars

\* C4: every constructed object has the storage type that ARRAY_TYPE held
\* when it was constructed (and, the types being recorded at construction
\* only, no later setMatrixArrayType call changes it).
C4_StorageTypeIsArrayTypeAtConstruction ==
  \A o \in DOMAIN stype : stype[o] = born[o]

\* the second half of C4 on its own: no step changes the storage type of an
\* object that exists
C4_ExistingStorageTypeKept ==
  [][\A o \in DOMAIN stype : o \in DOMAIN stype' /\ stype'[o] = stype[o]]_vars

(***************************************************************************)
(* The composite approximate equalities                                    *)
(***************************************************************************)
\* Math.abs(a0 - b0) <= EPSILON * Math.max(1.0, Math.abs(a0), Math.abs(b0)),
\* the test that vec2Equals .. quat2Equals spell out once per component
WithinEps(a0, b0) == LeEpsTimes(MathAbs(RSub(a0, b0)), MaxOneAbs(a0, b0))

vec2Equals(h, a, b) ==
  LET a0 == Rd(h, a, 0)  a1 == Rd(h, a, 1)
      b0 == Rd(h, b, 0)  b1 == Rd(h, b, 1)
  IN WithinEps(a0, b0) /\ WithinEps(a1, b1)

vec3Equals(h, a, b) ==
  LET a0 == Rd(h, a, 0)  a1 == Rd(h, a, 1)  a2 == Rd(h, a, 2)
      b0 == Rd(h, b, 0)  b1 == Rd(h, b, 1)  b2 == Rd(h, b, 2)
  IN WithinEps(a0, b0) /\ WithinEps(a1, b1) /\ WithinEps(a2, b2)

vec4Equals(h, a, b) ==
  LET a0 == Rd(h, a, 0)  a1 == Rd(h, a, 1)  a2 == Rd(h, a, 2)  a3 == Rd(h, a, 3)
      b0 == Rd(h, b, 0)  b1 == Rd(h, b, 1)  b2 == Rd(h, b, 2)  b3 == Rd(h, b, 3)
  IN WithinEps(a0, b0) /\ WithinEps(a1, b1) /\ WithinEps(a2, b2) /\ WithinEps(a3, b3)

mat2Equals(h, a, b) ==
  LET a0 == Rd(h, a, 0)  a1 == Rd(h, a, 1)  a2 == Rd(h, a, 2)  a3 == Rd(h, a, 3)
      b0 == Rd(h, b, 0)  b1 == Rd(h, b, 1)  b2 == Rd(h, b, 2)  b3 == Rd(h, b, 3)
  IN WithinEps(a0, b0) /\ WithinEps(a1, b1) /\ WithinEps(a2, b2) /\ WithinEps(a3, b3)

mat2dEquals(h, a, b) ==
  LET a0 == Rd(h, a, 0)  a1 == Rd(h, a, 1)  a2 == Rd(h, a, 2)
      a3 == Rd(h, a, 3)  a4 == Rd(h, a, 4)  a5 == Rd(h, a, 5)
      b0 == Rd(h, b, 0)  b1 == Rd(h, b, 1)  b2 == Rd(h, b, 2)
      b3 == Rd(h, b, 3)  b4 == Rd(h, b, 4)  b5 == Rd(h, b, 5)
  IN /\ WithinEps(a0, b0) /\ WithinEps(a1, b1) /\ WithinEps(a2, b2)
     /\ WithinEps(a3, b3) /\ WithinEps(a4, b4) /\ WithinEps(a5, b5)

\* Math.abs(quatDot(a, b)) >= 1 - EPSILON
quatEquals_noAbs(h, a, b) == RGe(quatDot(h, a, b), RSub(One, EPSILON))

quatEquals(h, a, b) == RGe(MathAbs(quatDot(h, a, b)), RSub(One, EPSILON))

quat2Equals(h, a, b) ==
  LET a0 == Rd(h, a, 0)  a1 == Rd(h, a, 1)  a2 == Rd(h, a, 2)  a3 == Rd(h, a, 3)
      a4 == Rd(h, a, 4)  a5 == Rd(h, a, 5)  a6 == Rd(h, a, 6)  a7 == Rd(h, a, 7)
      b0 == Rd(h, b, 0)  b1 == Rd(h, b, 1)  b2 == Rd(h, b, 2)  b3 == Rd(h, b, 3)
      b4 == Rd(h, b, 4)  b5 == Rd(h, b, 5)  b6 == Rd(h, b, 6)  b7 == Rd(h, b, 7)
  IN /\ WithinEps(a0, b0) /\ WithinEps(a1, b1) /\ WithinEps(a2, b2) /\ WithinEps(a3, b3)
     /\ WithinEps(a4, b4) /\ WithinEps(a5, b5) /\ WithinEps(a6, b6) /\ WithinEps(a7, b7)

\* quad2d.ts equals(a, b); a Quad2d is a record of the ids of its ij (a Mat2)
\* and its k (a Vec2)
quad2dEquals_ijOnly(h, a, b) == mat2Equals(h, h[a].ij, h[b].ij)

quad2dEquals(h, a, b) == mat2Equals(h, h[a].ij, h[b].ij) /\ vec2Equals(h, h[a].k, h[b].k)

(***************************************************************************)
(* SpecEq: one call of an equality on two objects "a" and "b".  The pairs  *)
(* of corresponding components are drawn from equal values, values inside  *)
(* the tolerance (absolutely, for magnitudes up to 1, and relatively, for  *)
(* large ones), values on its edge and values outside it.  quatEquals      *)
(* multiplies components and assumes unit length, so it is applied to the  *)
(* unit quaternions only.                                                  *)
(***************************************************************************)
CompPairs == {<<R(3), R(3)>>, <<R(2000000), R(2000001)>>, <<Zero, Q(1, 500000)>>,
              <<Zero, Q(1, 1000000)>>, <<R(2000000), R(2000003)>>}
FewPairs == {<<R(3), R(3)>>, <<R(2000001), R(2000000)>>, <<Q(1, 500000), Zero>>}

\* the two arrays whose corresponding components are the pairs of ps
Firsts(ps) == [i \in DOMAIN ps |-> ps[i][1]]
Seconds(ps) == [i \in DOMAIN ps |-> ps[i][2]]

PairSeqs(n) ==
  IF n <= 4 THEN [1..n -> CompPairs] ELSE [1..n -> FewPairs]

SmallQuats == UnitQuats

ArrHeap(a, b) == ("a" :> a) @@ ("b" :> b)

QuadHeap(ps) ==
  ("a" :> [ij |-> "a.ij", k |-> "a.k"]) @@ ("b" :> [ij |-> "b.ij", k |-> "b.k"])
    @@ ("a.ij" :> SubSeq(Firsts(ps), 1, 4)) @@ ("a.k" :> SubSeq(Firsts(ps), 5, 6))
    @@ ("b.ij" :> SubSeq(Seconds(ps), 1, 4)) @@ ("b.k" :> SubSeq(Seconds(ps), 5, 6))

InitEq ==
  /\ Fresh
  /\ \/ \E n \in {2, 3, 4, 6, 8} : \E ps \in PairSeqs(n) :
          heap = ArrHeap(Firsts(ps), Seconds(ps))
     \/ \E a \in SmallQuats, b \in SmallQuats : heap = ArrHeap(a, b)
     \/ \E ps \in PairSeqs(6) : heap = QuadHeap(ps)
  /\ pre = heap

IsQuad == "a.ij" \in DOMAIN heap
IsArr(n) == ~IsQuad /\ Len(heap["a"]) = n

Bool(b) == IF b THEN "true" ELSE "false"

EqCall(name, r) ==
  /\ Done([op |-> name, a |-> "a", b |-> "b"], Bool(r))
  /\ heap' = heap

Vec2Equals == IsArr(2) /\ EqCall("vec2Equals", vec2Equals(heap, "a", "b"))
Vec3Equals == IsArr(3) /\ EqCall("vec3Equals", vec3Equals(heap, "a", "b"))
Vec4Equals == IsArr(4) /\ EqCall("vec4Equals", vec4Equals(heap, "a", "b"))
Mat2Equals == IsArr(4) /\ EqCall("mat2Equals", mat2Equals(heap, "a", "b"))
Mat2dEquals == IsArr(6) /\ EqCall("mat2dEquals", mat2dEquals(heap, "a", "b"))
QuatEquals ==
  /\ IsArr(4) /\ heap["a"] \in SmallQuats /\ heap["b"] \in SmallQuats
  /\ EqCall("quatEquals", quatEquals(heap, "a", "b"))
Quat2Equals == IsArr(8) /\ EqCall("quat2Equals", quat2Equals(heap, "a", "b"))
Quad2dEquals == IsQuad /\ EqCall("quad2dEquals", quad2dEquals(heap, "a", "b"))

NextEq ==
  \/ Vec2Equals
  \/ Vec3Equals
  \/ Vec4Equals
  \/ Mat2Equals
  \/ Mat2dEquals
  \/ QuatEquals
  \/ Quat2Equals
  \/ Quad2dEquals

SpecEq == InitEq /\ [][NextEq]_vars

\* the components of an object, a quad's being those of its ij and then of
\* its k
Components(h, o, isQuad) == IF isQuad THEN h[h[o].ij] \o h[h[o].k] ELSE h[o]

\* the scalar test of common.ts holds for every pair of corresponding
\* components of the two arguments of the call
ComponentwiseEqual ==
  LET x == Components(pre, call.a, call.op = "quad2dEquals")
      y == Components(pre, call.b, call.op = "quad2dEquals")
  IN \A i \in DOMAIN x : equals(x[i], y[i])

ComponentwiseOps == {"vec2Equals", "vec3Equals", "vec4Equals", "mat2Equals",
                     "mat2dEquals", "quat2Equals", "quad2dEquals"}

\* C5 as stated: each of the eight composite equalities, quatEquals
\* included, returns true exactly when the scalar test holds for every pair
\* of corresponding components.
C5_EveryEqualsIsComponentwise ==
  (phase = "done" /\ call.op \in ComponentwiseOps \cup {"quatEquals"})
    => ((ret = "true") <=> ComponentwiseEqual)

\* C5, amended: the seven equalities other than quatEquals return true
\* exactly when the scalar test holds for every pair of corresponding
\* components; quatEquals returns true exactly when the absolute value of
\* the dot product of its arguments is at least 1 - EPSILON.
C5_EqualsComponentwiseExceptQuat ==
  /\ (phase = "done" /\ call.op \in ComponentwiseOps)
       => ((ret = "true") <=> ComponentwiseEqual)
  /\ (phase = "done" /\ call.op = "quatEquals")
       => LET a == pre[call.a]
              b == pre[call.b]
              dot == RAdd(RAdd(RAdd(RMul(a[1], b[1]), RMul(a[2], b[2])),
                               RMul(a[3], b[3])), RMul(a[4], b[4]))
          IN (ret = "true") <=> ~RLt(MathAbs(dot), Q(999999, 1000000))

\* q and -q, which differ in a component by 2, are equal for quatEquals
C5_Witness ==
  /\ phase = "done" /\ call.op = "quatEquals" /\ ret = "true"
  /\ pre["a"] = Vec4(0, 0, 0, 1) /\ pre["b"] = Vec4(0, 0, 0, -1)

(***************************************************************************)
(* quatSlerp                                                               *)
(***************************************************************************)
\* Math.sin(u * omega) / Math.sin(omega) for omega = Math.acos(cosom) and
\* 0 <= cosom < 1, where it is a rational number that the model can name:
\* sin(0)/sin(omega) = 0, sin(omega)/sin(omega) = 1 and
\* sin(omega/2)/sin(omega) = 1/sqrt(2*(1 + cosom))
SinRatioDefined(u, cosom) ==
  u = Zero \/ u = One \/ (u = Half /\ IsSquare(RMul(Two, RAdd(One, cosom))))

SinRatio(u, cosom) ==
  CASE u = Zero -> Zero
    [] u = One -> One
    [] u = Half /\ IsSquare(RMul(Two, RAdd(One, cosom))) ->
         RDiv(One, MathSqrt(RMul(Two, RAdd(One, cosom))))

\* cosom after the sign adjustment
SlerpCosom(h, a, b) == MathAbs(quatDot(h, a, b))

\* the calls of quatSlerp whose coefficients the model can name
SlerpDefined(h, a, b, t) ==
  LET cosom == SlerpCosom(h, a, b)
  IN RGt(RSub(One, cosom), EPSILON)
       => (RLt(cosom, One) /\ SinRatioDefined(RSub(One, t), cosom)
             /\ SinRatioDefined(t, cosom))

quatSlerp_swappedScales(h, out, a, b, t) ==
  LET ax == Rd(h, a, 0)  ay == Rd(h, a, 1)  az == Rd(h, a, 2)  aw == Rd(h, a, 3)
      bx0 == Rd(h, b, 0)  by0 == Rd(h, b, 1)  bz0 == Rd(h, b, 2)  bw0 == Rd(h, b, 3)
      cosom0 == RAdd(RAdd(RAdd(RMul(ax, bx0), RMul(ay, by0)), RMul(az, bz0)), RMul(aw, bw0))
      neg == RLt(cosom0, Zero)
      cosom == IF neg THEN RNeg(cosom0) ELSE cosom0
      bx == IF neg THEN RNeg(bx0) ELSE bx0
      by == IF neg THEN RNeg(by0) ELSE by0
      bz == IF neg THEN RNeg(bz0) ELSE bz0
      bw == IF neg THEN RNeg(bw0) ELSE bw0
      standard == RGt(RSub(One, cosom), EPSILON)
      scale0 == IF standard THEN SinRatio(RSub(One, t), cosom) ELSE RSub(One, t)
      scale1 == IF standard THEN SinRatio(t, cosom) ELSE t
  IN WrAll(h, out, <<Mul2(scale1, ax, scale0, bx), Mul2(scale1, ay, scale0, by),
                     Mul2(scale1, az, scale0, bz), Mul2(scale1, aw, scale0, bw)>>)

quatSlerp(h, out, a, b, t) ==
  LET ax == Rd(h, a, 0)  ay == Rd(h, a, 1)  az == Rd(h, a, 2)  aw == Rd(h, a, 3)
      bx0 == Rd(h, b, 0)  by0 == Rd(h, b, 1)  bz0 == Rd(h, b, 2)  bw0 == Rd(h, b, 3)
      cosom0 == RAdd(RAdd(RAdd(RMul(ax, bx0), RMul(ay, by0)), RMul(az, bz0)), RMul(aw, bw0))
      neg == RLt(cosom0, Zero)
      cosom == IF neg THEN RNeg(cosom0) ELSE cosom0
      bx == IF neg THEN RNeg(bx0) ELSE bx0
      by == IF neg THEN RNeg(by0) ELSE by0
      bz == IF neg THEN RNeg(bz0) ELSE bz0
      bw == IF neg THEN RNeg(bw0) ELSE bw0
      standard == RGt(RSub(One, cosom), EPSILON)
      scale0 == IF standard THEN SinRatio(RSub(One, t), cosom) ELSE RSub(One, t)
      scale1 == IF standard THEN SinRatio(t, cosom) ELSE t
  IN WrAll(h, out, <<Mul2(scale0, ax, scale1, bx), Mul2(scale0, ay, scale1, by),
                     Mul2(scale0, az, scale1, bz), Mul2(scale0, aw, scale1, bw)>>)

(***************************************************************************)
(* SpecSlerp: one call quatSlerp(out, a, b, t) on unit quaternions, out    *)
(* being a third object "o" or one of the operands                         *)
(***************************************************************************)
SlerpTs == {Zero, Half, One}

InitSlerp ==
  /\ Fresh
  /\ \E a \in UnitQuats, b \in UnitQuats :
       heap = ("a" :> a) @@ ("b" :> b) @@ ("o" :> QuatOut)
  /\ pre = heap

QuatSlerp(out, t) ==
  /\ SlerpDefined(heap, "a", "b", t)
  /\ Done([op |-> "quatSlerp", out |-> out, a |-> "a", b |-> "b", t |-> t], out)
  /\ heap' = quatSlerp(heap, out, "a", "b", t)

NextSlerp == \E out \in {"o", "a", "b"}, t \in SlerpTs : QuatSlerp(out, t)

SpecSlerp == InitSlerp /\ [][NextSlerp]_vars

\* every component of x is approximately equal to that of y
AllEquals(x, y) == \A i \in DOMAIN x : equals(x[i], y[i])

Negated(x) == [i \in DOMAIN x |-> RNeg(x[i])]

\* C6 as stated: for unit quaternions a and b quatSlerp(out, a, b, 0) is
\* component-wise approximately equal to a and quatSlerp(out, a, b, 1) to b.
C6_SlerpEndpoints ==
  (phase = "done" /\ call.op = "quatSlerp" /\ QuatUnit(pre[call.a]) /\ QuatUnit(pre[call.b]))
    => /\ (call.t = Zero) => AllEquals(heap[call.out], pre[call.a])
       /\ (call.t = One) => AllEquals(heap[call.out], pre[call.b])

\* C6, amended: for unit quaternions a and b quatSlerp(out, a, b, 0) is
\* component-wise approximately equal to a, and quatSlerp(out, a, b, 1) is
\* component-wise approximately equal to b when the dot product of a and b
\* is not negative and to -b (the same rotation) when it is negative.
C6_SlerpEndpointsUpToSign ==
  (phase = "done" /\ call.op = "quatSlerp" /\ QuatUnit(pre[call.a]) /\ QuatUnit(pre[call.b]))
    => /\ (call.t = Zero) => AllEquals(heap[call.out], pre[call.a])
       /\ (call.t = One /\ ~RLt(quatDot(pre, call.a, call.b), Zero))
            => AllEquals(heap[call.out], pre[call.b])
       /\ (call.t = One /\ RLt(quatDot(pre, call.a, call.b), Zero))
            => AllEquals(heap[call.out], Negated(pre[call.b]))

\* an interpolation to t = 1 across more than a right angle, which ends on
\* the negative of b
C6_Witness ==
  /\ phase = "done" /\ call.op = "quatSlerp" /\ call.t = One /\ call.out = "o"
  /\ pre["a"] = <<Q(3, 5), Q(4, 5), Zero, Zero>> /\ pre["b"] = Vec4(0, -1, 0, 0)
  /\ heap["o"] = Vec4(0, 1, 0, 0)

(***************************************************************************)
(* vec3, vec4 and quat operations used by the scratch-buffer wrappers      *)
(***************************************************************************)
\* the arguments on which the model can name Math.sqrt
SqrtDefined(x) == x[2] = 0 \/ x[1] < 0 \/ IsSquare(x)

vec3Dot(h, a, b) ==
  RAdd(RAdd(RMul(Rd(h, a, 0), Rd(h, b, 0)), RMul(Rd(h, a, 1), Rd(h, b, 1))),
       RMul(Rd(h, a, 2), Rd(h, b, 2)))

vec3Cross(h, out, a, b) ==
  LET ax == Rd(h, a, 0)  ay == Rd(h, a, 1)  az == Rd(h, a, 2)
      bx == Rd(h, b, 0)  by == Rd(h, b, 1)  bz == Rd(h, b, 2)
  IN WrAll(h, out, <<RSub(RMul(ay, bz), RMul(az, by)),
                     RSub(RMul(az, bx), RMul(ax, bz)),
                     RSub(RMul(ax, by), RMul(ay, bx))>>)

\* x*x + y*y + z*z
vec3SquaredLength(h, a) ==
  LET x == Rd(h, a, 0)  y == Rd(h, a, 1)  z == Rd(h, a, 2)
  IN RAdd(RAdd(RMul(x, x), RMul(y, y)), RMul(z, z))

vec3Length(h, a) == MathSqrt(vec3SquaredLength(h, a))

vec3NormalizeDefined(h, a) == SqrtDefined(vec3SquaredLength(h, a))

\* out[i] = a[j], out[i] = -a[j] and out[i] = a[j] * f
Copy(h, out, i, a, j) == Wr(h, out, i, Rd(h, a, j))
CopyNeg(h, out, i, a, j) == Wr(h, out, i, RNeg(Rd(h, a, j)))
CopyTimes(h, out, i, a, j, f) == Wr(h, out, i, RMul(Rd(h, a, j), f))

\* an inverse length without the test len > 0
InverseLength_noGuard(len) == RDiv(One, MathSqrt(len))

\* if (len > 0) len = 1 / Math.sqrt(len)
InverseLength(len) == IF RGt(len, Zero) THEN RDiv(One, MathSqrt(len)) ELSE len

vec3Times(h, out, a, len) ==
  CopyTimes(CopyTimes(CopyTimes(h, out, 0, a, 0, len), out, 1, a, 1, len), out, 2, a, 2, len)

vec3Normalize(h, out, a) == vec3Times(h, out, a, InverseLength(vec3SquaredLength(h, a)))

vec4SquaredLength(h, a) ==
  LET x == Rd(h, a, 0)  y == Rd(h, a, 1)  z == Rd(h, a, 2)  w == Rd(h, a, 3)
  IN RAdd(RAdd(RAdd(RMul(x, x), RMul(y, y)), RMul(z, z)), RMul(w, w))

vec4NormalizeDefined(h, a) == SqrtDefined(vec4SquaredLength(h, a))

\* x, y, z and w are read before the first write
vec4Times(h, out, a, len) ==
  WrAll(h, out, <<RMul(Rd(h, a, 0), len), RMul(Rd(h, a, 1), len),
                  RMul(Rd(h, a, 2), len), RMul(Rd(h, a, 3), len)>>)

\* quatNormalize is vec4Normalize
vec4Normalize(h, out, a) == vec4Times(h, out, a, InverseLength(vec4SquaredLength(h, a)))

quatSetAxisAngle(h, out, axis, ang) ==
  Wr(CopyTimes(CopyTimes(CopyTimes(h, out, 0, axis, 0, ang.sinHalf),
                         out, 1, axis, 1, ang.sinHalf),
               out, 2, axis, 2, ang.sinHalf),
     out, 3, ang.cosHalf)

\* fTrace = m[0] + m[4] + m[8]
Mat3Trace(h, m) == RAdd(RAdd(Rd(h, m, 0), Rd(h, m, 4)), Rd(h, m, 8))

\* i after `if (m[8] > m[i * 3 + i]) i = 2`
Mat3LargestOf(h, m, i) == IF RGt(Rd(h, m, 8), Rd(h, m, i * 3 + i)) THEN 2 ELSE i

\* the index i of the largest diagonal element, as the two ifs select it
Mat3Largest(h, m) == Mat3LargestOf(h, m, IF RGt(Rd(h, m, 4), Rd(h, m, 0)) THEN 1 ELSE 0)

\* m[i * 3 + i] - m[j * 3 + j] - m[k * 3 + k] + 1.0
Mat3DiagonalRadicand(h, m, i, j, k) ==
  RAdd(RSub(RSub(Rd(h, m, i * 3 + i), Rd(h, m, j * 3 + j)), Rd(h, m, k * 3 + k)), One)

Mat3RadicandAt(h, m, i) == Mat3DiagonalRadicand(h, m, i, (i + 1) % 3, (i + 2) % 3)

\* the argument of Math.sqrt in quatFromMat3
Mat3Radicand(h, m) ==
  IF RGt(Mat3Trace(h, m), Zero)
  THEN RAdd(Mat3Trace(h, m), One)
  ELSE Mat3RadicandAt(h, m, Mat3Largest(h, m))

quatFromMat3Defined(h, m) == SqrtDefined(Mat3Radicand(h, m))

\* out[i] = (m[p] - m[q]) * f and out[i] = (m[p] + m[q]) * f
WrDifference(h, out, i, m, p, q, f) == Wr(h, out, i, RMul(RSub(Rd(h, m, p), Rd(h, m, q)), f))
WrSum(h, out, i, m, p, q, f) == Wr(h, out, i, RMul(RAdd(Rd(h, m, p), Rd(h, m, q)), f))

\* the three writes that follow fRoot = 0.5 / fRoot when fTrace > 0
quatFromMat3TraceRest(h, out, m, f) ==
  WrDifference(WrDifference(WrDifference(h, out, 0, m, 5, 7, f), out, 1, m, 6, 2, f),
               out, 2, m, 1, 3, f)

\* and when fTrace <= 0
quatFromMat3DiagonalRest(h, out, m, i, j, k, f) ==
  WrSum(WrSum(WrDifference(h, out, 3, m, j * 3 + k, k * 3 + j, f),
              out, j, m, j * 3 + i, i * 3 + j, f),
        out, k, m, k * 3 + i, i * 3 + k, f)

\* quatFromMat3 from the value fRoot of Math.sqrt on
quatFromMat3Root(h, out, m, i, fRoot) ==
  IF RGt(Mat3Trace(h, m), Zero)
  THEN quatFromMat3TraceRest(Wr(h, out, 3, RMul(Half, fRoot)), out, m, RDiv(Half, fRoot))
  ELSE quatFromMat3DiagonalRest(Wr(h, out, i, RMul(Half, fRoot)), out, m,
                                i, (i + 1) % 3, (i + 2) % 3, RDiv(Half, fRoot))

quatFromMat3(h, out, m) ==
  quatFromMat3Root(h, out, m, Mat3Largest(h, m), MathSqrt(Mat3Radicand(h, m)))

\* mat3.ts is not among the sources; mat3Create returns the 3x3 identity
mat3Create == <<One, Zero, Zero, Zero, One, Zero, Zero, Zero, One>>

(***************************************************************************)
(* The wrappers that close over scratch buffers.  Each scratch buffer is   *)
(* one object of the heap, allocated when the module is loaded:            *)
(*   "vec2.vec", "vec3.vec", "vec4.vec"   the vec of the three forEach     *)
(*   "tmpvec3", "xUnitVec3", "yUnitVec3"  of rotationTo                    *)
(*   "temp1", "temp2"                     of sqlerp                        *)
(*   "matr"                               of setAxes                       *)
(* rotationTo, sqlerp and setAxes are split where their last write of the  *)
(* scratch is followed by their read of it: the part up to there and the   *)
(* part from there on.                                                     *)
(***************************************************************************)
VecScratch(n) == CASE n = 2 -> "vec2.vec" [] n = 3 -> "vec3.vec" [] n = 4 -> "vec4.vec"

\* vec[0] = a[i]; vec[1] = a[i + 1]; ...
RECURSIVE CopyIn(_, _, _, _, _)
CopyIn(h, n, a, i, k) ==
  IF k >= n THEN h ELSE CopyIn(Wr(h, VecScratch(n), k, Rd(h, a, i + k)), n, a, i, k + 1)

\* a[i] = vec[0]; a[i + 1] = vec[1]; ...
RECURSIVE CopyOut(_, _, _, _, _)
CopyOut(h, n, a, i, k) ==
  IF k >= n THEN h ELSE CopyOut(Wr(h, a, i + k, Rd(h, VecScratch(n), k)), n, a, i, k + 1)

\* vec2Scale, vec3Scale, vec4Scale: out[k] = a[k] * b
RECURSIVE vecScale(_, _, _, _, _, _)
vecScale(h, n, out, a, b, k) ==
  IF k >= n THEN h ELSE vecScale(Wr(h, out, k, RMul(Rd(h, a, k), b)), n, out, a, b, k + 1)

\* vec2Negate, vec3Negate, vec4Negate: out[k] = -a[k]
RECURSIVE vecNegate(_, _, _, _, _)
vecNegate(h, n, out, a, k) ==
  IF k >= n THEN h ELSE vecNegate(Wr(h, out, k, RNeg(Rd(h, a, k))), n, out, a, k + 1)

\* The callbacks given to forEach, records of a kind, an array b and the
\* kind of an inner callback.  "scale" is (out, from) => scale(out, from, 2)
\* and "negate" is negate; "nestThenScale" first calls the same forEach on
\* the array fn.b with the callback fn.inner and then scales, and
\* "scaleThenNest" scales and then makes that call.
Plain(kind) == [kind |-> kind, b |-> "none", inner |-> "none"]

RECURSIVE forEachLoop(_, _, _, _, _, _, _)
RECURSIVE forEach(_, _, _, _, _, _, _)
RECURSIVE ApplyFn(_, _, _)

ApplyFn(h, n, fn) ==
  LET vec == VecScratch(n)
  IN CASE fn.kind = "scale" -> vecScale(h, n, vec, vec, Two, 0)
       [] fn.kind = "negate" -> vecNegate(h, n, vec, vec, 0)
       [] fn.kind = "nestThenScale" ->
            vecScale(forEach(h, n, fn.b, 0, 0, 0, Plain(fn.inner)), n, vec, vec, Two, 0)
       [] fn.kind = "scaleThenNest" ->
            forEach(vecScale(h, n, vec, vec, Two, 0), n, fn.b, 0, 0, 0, Plain(fn.inner))

\* the for loop from i on.  (TLC evaluates the arguments of an operator
\* when they are first used; the test on the heap of one iteration has it
\* evaluated before the next iteration starts.)
forEachLoop(h, n, a, stride, i, l, fn) ==
  IF i < l
  THEN LET h1 == CopyOut(ApplyFn(CopyIn(h, n, a, i, 0), n, fn), n, a, i, 0)
       IN IF DOMAIN h1 = {} THEN h1 ELSE forEachLoop(h1, n, a, stride, i + stride, l, fn)
  ELSE h

\* the stride and the end l that forEach computes before the loop
ForEachStride(n, stride) == IF stride = 0 THEN n ELSE stride

ForEachEnd(len, stride, offset, count) ==
  IF count # 0
  THEN (IF count * stride + offset < len THEN count * stride + offset ELSE len)
  ELSE len

\* forEach of vec2 (n = 2), vec3 (n = 3) and vec4 (n = 4)
forEach(h, n, a, stride, offset, count, fn) ==
  LET st == ForEachStride(n, stride)
  IN forEachLoop(h, n, a, st, offset, ForEachEnd(Len(h[a]), st, offset, count), fn)

MinusAlmostOne == Q(-999999, 1000000)
AlmostOne == Q(999999, 1000000)

RotationToBranch(dot) ==
  IF RLt(dot, MinusAlmostOne) THEN "antiparallel"
  ELSE IF RGt(dot, AlmostOne) THEN "identity"
  ELSE "general"

\* rotationTo up to its last write of tmpvec3 that a read follows
rotationToWrite(h, a, b, dot) ==
  CASE RotationToBranch(dot) = "antiparallel" ->
         LET h1 == vec3Cross(h, "tmpvec3", "xUnitVec3", a)
         IN IF RLt(vec3Length(h1, "tmpvec3"), Q(1, 1000000))
            THEN vec3Cross(h1, "tmpvec3", "yUnitVec3", a)
            ELSE h1
    [] RotationToBranch(dot) = "identity" -> h
    [] RotationToBranch(dot) = "general" -> vec3Cross(h, "tmpvec3", a, b)

rotationToWriteDefined(h, a, b, dot) ==
  RotationToBranch(dot) = "antiparallel"
    => SqrtDefined(vec3SquaredLength(vec3Cross(h, "tmpvec3", "xUnitVec3", a), "tmpvec3"))

\* rotationTo from there on
rotationToRead(h, out, dot) ==
  CASE RotationToBranch(dot) = "antiparallel" ->
         quatSetAxisAngle(vec3Normalize(h, "tmpvec3", "tmpvec3"), out, "tmpvec3", AnglePi)
    [] RotationToBranch(dot) = "identity" -> WrAll(h, out, <<Zero, Zero, Zero, One>>)
    [] RotationToBranch(dot) = "general" ->
         vec4Normalize(Wr(Copy(Copy(Copy(h, out, 0, "tmpvec3", 0), out, 1, "tmpvec3", 1),
                                   out, 2, "tmpvec3", 2),
                          out, 3, RAdd(One, dot)),
                       out, out)

rotationToReadDefined(h, out, dot) ==
  CASE RotationToBranch(dot) = "antiparallel" -> vec3NormalizeDefined(h, "tmpvec3")
    [] RotationToBranch(dot) = "identity" -> TRUE
    [] RotationToBranch(dot) = "general" ->
         SqrtDefined(RAdd(vec3SquaredLength(h, "tmpvec3"),
                          RMul(RAdd(One, dot), RAdd(One, dot))))

rotationTo(h, out, a, b) ==
  LET dot == vec3Dot(h, a, b)
  IN rotationToRead(rotationToWrite(h, a, b, dot), out, dot)

rotationToDefined(h, out, a, b) ==
  LET dot == vec3Dot(h, a, b)
  IN /\ rotationToWriteDefined(h, a, b, dot)
     /\ rotationToReadDefined(rotationToWrite(h, a, b, dot), out, dot)

\* sqlerp: the two slerps into temp1 and temp2, and the slerp that reads them
sqlerpWrite(h, a, b, c, d, t) == quatSlerp(quatSlerp(h, "temp1", a, d, t), "temp2", b, c, t)

sqlerpWriteDefined(h, a, b, c, d, t) == SlerpDefined(h, a, d, t) /\ SlerpDefined(h, b, c, t)

\* 2 * t * (1 - t)
Blend(t) == RMul(RMul(Two, t), RSub(One, t))

sqlerpRead(h, out, t) == quatSlerp(h, out, "temp1", "temp2", Blend(t))

sqlerpReadDefined(h, t) == SlerpDefined(h, "temp1", "temp2", Blend(t))

sqlerp(h, out, a, b, c, d, t) == sqlerpRead(sqlerpWrite(h, a, b, c, d, t), out, t)

sqlerpDefined(h, a, b, c, d, t) ==
  sqlerpWriteDefined(h, a, b, c, d, t) /\ sqlerpReadDefined(sqlerpWrite(h, a, b, c, d, t), t)

\* setAxes without its writes of matr
setAxesWrite_noScratch(h, view, right, up) == h

\* the writes of matr without matr[1] = up[0]
setAxesWrite_keepsOne(h, view, right, up) ==
  CopyNeg(CopyNeg(CopyNeg(
    Copy(Copy(
      Copy(Copy(Copy(h, "matr", 0, right, 0), "matr", 3, right, 1), "matr", 6, right, 2),
      "matr", 4, up, 1), "matr", 7, up, 2),
    "matr", 2, view, 0), "matr", 5, view, 1), "matr", 8, view, 2)

\* setAxes: the nine writes of matr, and the conversion that reads it
setAxesWrite(h, view, right, up) ==
  CopyNeg(CopyNeg(CopyNeg(
    Copy(Copy(Copy(
      Copy(Copy(Copy(h, "matr", 0, right, 0), "matr", 3, right, 1), "matr", 6, right, 2),
      "matr", 1, up, 0), "matr", 4, up, 1), "matr", 7, up, 2),
    "matr", 2, view, 0), "matr", 5, view, 1), "matr", 8, view, 2)

setAxesRead(h, out) == vec4Normalize(quatFromMat3(h, out, "matr"), out, out)

setAxesReadDefined(h, out) ==
  /\ quatFromMat3Defined(h, "matr")
  /\ vec4NormalizeDefined(quatFromMat3(h, out, "matr"), out)

setAxes(h, out, view, right, up) == setAxesRead(setAxesWrite(h, view, right, up), out)

setAxesDefined(h, out, view, right, up) ==
  setAxesReadDefined(setAxesWrite(h, view, right, up), out)

(***************************************************************************)
(* SpecScratch: a first invocation of a wrapper and, for rotationTo,       *)
(* sqlerp and setAxes, an optional second invocation of the same wrapper   *)
(* that runs to completion after the first has written the scratch and     *)
(* before it reads it (phase "window").  The second invocation has its own *)
(* arguments "a2", "b2", ... and its own out "out2".  For forEach the      *)
(* second invocation is the one the callback makes.                        *)
(***************************************************************************)
UnitVec3s == {Vec(1, 0, 0), Vec(0, 1, 0), Vec(-1, 0, 0), Vec(0, 0, 1),
              <<Q(7, 25), Q(24, 25), Zero>>, <<Q(-7, 25), Q(24, 25), Zero>>,
              <<Q(3, 5), Q(4, 5), Zero>>}

\* <<a, b, c, d>> of a first sqlerp, and of a second
SqlerpFirsts == {<<a, b, b, d>> : a \in {Vec4(0, 0, 0, 1), <<Q(3, 5), Q(4, 5), Zero, Zero>>},
                                  b \in {Vec4(0, 1, 0, 0), <<Half, Half, Half, Half>>},
                                  d \in {Vec4(0, 0, 0, 1), Vec4(1, 0, 0, 0),
                                         <<Q(-4, 5), Zero, Zero, Q(3, 5)>>}}
SqlerpSeconds == {<<Vec4(0, 0, 1, 0), Vec4(1, 0, 0, 0), Vec4(1, 0, 0, 0), Vec4(0, 0, 1, 0)>>,
                  <<Vec4(0, 0, 0, -1), Vec4(0, 1, 0, 0), Vec4(0, 0, 1, 0),
                    <<Zero, Q(3, 5), Zero, Q(4, 5)>>>>}

\* <<view, right, up>>: the identity, half turns about x, y and z and a
\* rotation about z
AxesTriples == {<<Vec(0, 0, -1), Vec(1, 0, 0), Vec(0, 1, 0)>>,
                <<Vec(0, 0, 1), Vec(1, 0, 0), Vec(0, -1, 0)>>,
                <<Vec(0, 0, 1), Vec(-1, 0, 0), Vec(0, 1, 0)>>,
                <<Vec(0, 0, -1), Vec(-1, 0, 0), Vec(0, -1, 0)>>,
                <<Vec(0, 0, -1), <<Q(7, 25), Q(24, 25), Zero>>, <<Q(-24, 25), Q(7, 25), Zero>>>>}

\* <<R(from), R(from + 1), ...>> of length len
RECURSIVE Counting(_, _)
Counting(from, len) ==
  IF len = 0 THEN <<>> ELSE Append(Counting(from, len - 1), R(from + len - 1))

InitForEach ==
  \E n \in {2, 3, 4}, na \in {1, 2}, nb \in {0, 1, 2}, from \in {1, 3} :
    heap = (VecScratch(n) :> Zeros(n)) @@ ("a" :> Counting(from, n * na))
             @@ ("b" :> Counting(11, n * nb))

InitRotationTo ==
  \E a \in UnitVec3s, b \in UnitVec3s, a2 \in UnitVec3s, b2 \in UnitVec3s :
    heap = ("tmpvec3" :> vec3Create.val) @@ ("xUnitVec3" :> vec3FromValues(One, Zero, Zero).val)
             @@ ("yUnitVec3" :> vec3FromValues(Zero, One, Zero).val)
             @@ ("a" :> a) @@ ("b" :> b) @@ ("a2" :> a2) @@ ("b2" :> b2)
             @@ ("out" :> QuatOut) @@ ("out2" :> QuatOut)

InitSqlerp ==
  \E f \in SqlerpFirsts, s \in SqlerpSeconds :
    heap = ("temp1" :> quatCreate.val) @@ ("temp2" :> quatCreate.val)
             @@ ("a" :> f[1]) @@ ("b" :> f[2]) @@ ("c" :> f[3]) @@ ("d" :> f[4])
             @@ ("a2" :> s[1]) @@ ("b2" :> s[2]) @@ ("c2" :> s[3]) @@ ("d2" :> s[4])
             @@ ("out" :> QuatOut) @@ ("out2" :> QuatOut)

InitSetAxes ==
  \E f \in AxesTriples, s \in AxesTriples :
    heap = ("matr" :> mat3Create)
             @@ ("view" :> f[1]) @@ ("right" :> f[2]) @@ ("up" :> f[3])
             @@ ("view2" :> s[1]) @@ ("right2" :> s[2]) @@ ("up2" :> s[3])
             @@ ("out" :> QuatOut) @@ ("out2" :> QuatOut)

InitScratch ==
  /\ Fresh
  /\ (InitForEach \/ InitRotationTo \/ InitSqlerp \/ InitSetAxes)
  /\ pre = heap

NotNested == [ran |-> FALSE, t |-> Zero]

\* the first invocation has written the scratch and is about to read it
Begin(f) ==
  /\ phase = "ready"
  /\ phase' = "window"
  /\ stack' = <<f>>
  /\ UNCHANGED <<pre, call, ret, ARRAY_TYPE, stype, born>>

\* a second invocation ran to completion inside the window of the first
Nested(op, t) ==
  /\ phase = "window"
  /\ stack[1].op = op
  /\ ~stack[1].nested.ran
  /\ stack' = <<[stack[1] EXCEPT !.nested = [ran |-> TRUE, t |-> t]]>>
  /\ UNCHANGED <<phase, pre, call, ret, ARRAY_TYPE, stype, born>>

\* the first invocation read the scratch and returned
Finish(op) ==
  /\ phase = "window"
  /\ stack[1].op = op
  /\ phase' = "done"
  /\ call' = stack[1]
  /\ ret' = stack[1].out
  /\ stack' = <<>>
  /\ UNCHANGED <<pre, ARRAY_TYPE, stype, born>>

NestKinds == {"nestThenScale", "scaleThenNest"}
Callbacks == {Plain("scale")} \cup {[kind |-> k, b |-> "b", inner |-> "negate"] : k \in NestKinds}

ForEachCall(n, stride, offset, count, fn) ==
  /\ Has(VecScratch(n))
  /\ Done([op |-> "forEach", n |-> n, a |-> "a", stride |-> stride, offset |-> offset,
           count |-> count, fn |-> fn], "a")
  /\ heap' = forEach(heap, n, "a", stride, offset, count, fn)

Vec2ForEach(stride, offset, count, fn) == ForEachCall(2, stride, offset, count, fn)
Vec3ForEach(stride, offset, count, fn) == ForEachCall(3, stride, offset, count, fn)
Vec4ForEach(stride, offset, count, fn) == ForEachCall(4, stride, offset, count, fn)

RotationToBegin ==
  /\ Has("tmpvec3")
  /\ LET dot == vec3Dot(heap, "a", "b")
     IN /\ RotationToBranch(dot) # "identity"
        /\ rotationToWriteDefined(heap, "a", "b", dot)
        /\ Begin([op |-> "rotationTo", out |-> "out", a |-> "a", b |-> "b", dot |-> dot,
                  nested |-> NotNested])
        /\ heap' = rotationToWrite(heap, "a", "b", dot)

\* nearly identical vectors: rotationTo returns without using the scratch
RotationToIdentity ==
  /\ Has("tmpvec3")
  /\ LET dot == vec3Dot(heap, "a", "b")
     IN /\ RotationToBranch(dot) = "identity"
        /\ Done([op |-> "rotationTo", out |-> "out", a |-> "a", b |-> "b", dot |-> dot,
                 nested |-> NotNested], "out")
        /\ heap' = rotationTo(heap, "out", "a", "b")

RotationToNested ==
  /\ Nested("rotationTo", Zero)
  /\ rotationToDefined(heap, "out2", "a2", "b2")
  /\ heap' = rotationTo(heap, "out2", "a2", "b2")

RotationToFinish ==
  /\ Finish("rotationTo")
  /\ rotationToReadDefined(heap, stack[1].out, stack[1].dot)
  /\ heap' = rotationToRead(heap, stack[1].out, stack[1].dot)

SqlerpBegin(t) ==
  /\ Has("temp1")
  /\ sqlerpWriteDefined(heap, "a", "b", "c", "d", t)
  /\ Begin([op |-> "sqlerp", out |-> "out", a |-> "a", b |-> "b", c |-> "c", d |-> "d",
            t |-> t, nested |-> NotNested])
  /\ heap' = sqlerpWrite(heap, "a", "b", "c", "d", t)

SqlerpNested(t2) ==
  /\ Nested("sqlerp", t2)
  /\ sqlerpDefined(heap, "a2", "b2", "c2", "d2", t2)
  /\ heap' = sqlerp(heap, "out2", "a2", "b2", "c2", "d2", t2)

SqlerpFinish ==
  /\ Finish("sqlerp")
  /\ sqlerpReadDefined(heap, stack[1].t)
  /\ heap' = sqlerpRead(heap, stack[1].out, stack[1].t)

SetAxesBegin ==
  /\ Has("matr")
  /\ Begin([op |-> "setAxes", out |-> "out", view |-> "view", right |-> "right",
            up |-> "up", nested |-> NotNested])
  /\ heap' = setAxesWrite(heap, "view", "right", "up")

SetAxesNested ==
  /\ Nested("setAxes", Zero)
  /\ setAxesDefined(heap, "out2", "view2", "right2", "up2")
  /\ heap' = setAxes(heap, "out2", "view2", "right2", "up2")

SetAxesFinish ==
  /\ Finish("setAxes")
  /\ setAxesReadDefined(heap, stack[1].out)
  /\ heap' = setAxesRead(heap, stack[1].out)

NextScratch ==
  \/ \E stride \in {0, 2}, offset \in {0, 2}, count \in {0, 1}, fn \in Callbacks :
       Vec2ForEach(stride, offset, count, fn)
  \/ \E stride \in {0, 3}, offset \in {0, 3}, count \in {0, 1}, fn \in Callbacks :
       Vec3ForEach(stride, offset, count, fn)
  \/ \E stride \in {0, 4}, offset \in {0, 4}, count \in {0, 1}, fn \in Callbacks :
       Vec4ForEach(stride, offset, count, fn)
  \/ RotationToBegin
  \/ RotationToIdentity
  \/ RotationToNested
  \/ RotationToFinish
  \/ \E t \in SlerpTs : SqlerpBegin(t)
  \/ \E t2 \in SlerpTs : SqlerpNested(t2)
  \/ SqlerpFinish
  \/ SetAxesBegin
  \/ SetAxesNested
  \/ SetAxesFinish

SpecScratch == InitScratch /\ [][NextScratch]_vars

(***************************************************************************)
(* What the results of the wrappers are, as functions of values            *)
(***************************************************************************)
Cross3(x, y) ==
  <<RSub(RMul(x[2], y[3]), RMul(x[3], y[2])),
    RSub(RMul(x[3], y[1]), RMul(x[1], y[3])),
    RSub(RMul(x[1], y[2]), RMul(x[2], y[1]))>>

Dot3(x, y) == RAdd(RAdd(RMul(x[1], y[1]), RMul(x[2], y[2])), RMul(x[3], y[3]))

RECURSIVE SumSquares(_, _)
SumSquares(v, k) == IF k = 0 THEN Zero ELSE RAdd(SumSquares(v, k - 1), RMul(v[k], v[k]))

\* v scaled to unit length (v itself if its length is 0)
Normalized(v) ==
  LET s == SumSquares(v, Len(v))
  IN IF RGt(s, Zero) THEN [i \in DOMAIN v |-> RDiv(v[i], MathSqrt(s))] ELSE v

\* the unit axis perpendicular to a that rotationTo turns about when b = -a
Perpendicular(a) ==
  LET c == Cross3(Vec(1, 0, 0), a)
  IN Normalized(IF c = Vec(0, 0, 0) THEN Cross3(Vec(0, 1, 0), a) ELSE c)

\* the result of rotationTo(out, a, b) when tmpvec3 holds tmp at its read
RotationFromScratch(tmp, a, b) ==
  IF RotationToBranch(Dot3(a, b)) = "antiparallel"
  THEN Normalized(tmp) \o <<Zero>>
  ELSE Normalized(tmp \o <<RAdd(One, Dot3(a, b))>>)

\* what a complete rotationTo(out, a, b) that uses tmpvec3 leaves in it
RotationScratch(a, b) ==
  IF RotationToBranch(Dot3(a, b)) = "antiparallel" THEN Perpendicular(a) ELSE Cross3(a, b)

\* its own tmpvec3 when it reads it
RotationOwnScratch(a, b) ==
  IF RotationToBranch(Dot3(a, b)) = "antiparallel"
  THEN (LET c == Cross3(Vec(1, 0, 0), a)
        IN IF c = Vec(0, 0, 0) THEN Cross3(Vec(0, 1, 0), a) ELSE c)
  ELSE Cross3(a, b)

SlerpValue(x, y, t) == quatSlerp(("x" :> x) @@ ("y" :> y) @@ ("z" :> x), "z", "x", "y", t)["z"]

\* the columns right, up and -view as setAxes lays them out
AxesMatrix(view, right, up) ==
  <<right[1], up[1], RNeg(view[1]), right[2], up[2], RNeg(view[2]),
    right[3], up[3], RNeg(view[3])>>

AxesValue(m) == Normalized(quatFromMat3(("m" :> m) @@ ("z" :> QuatOut), "z", "m")["z"])

\* the index range [offset, l) of a forEach call and the number, from 1,
\* of the vector that holds index p
ForEachL == 
  ForEachEnd(Len(pre[call.a]), ForEachStride(call.n, call.stride), call.offset, call.count)
Processed(p) == call.offset <= p /\ p < ForEachL
VectorNo(p) == ((p - call.offset) \div call.n) + 1
LastVectorOf(b, n) == SubSeq(b, Len(b) - n + 1, Len(b))
Sign(k) == IF k % 2 = 1 THEN R(-1) ELSE R(1)

ScratchOps == {"forEach", "rotationTo", "sqlerp", "setAxes"}

\* a second invocation ran between a write of the scratch by the first and
\* its later read
SecondRanInWindow ==
  IF call.op = "forEach"
  THEN call.fn.kind \in NestKinds /\ call.offset < ForEachL
  ELSE call.nested.ran

\* the second invocation wrote the scratch
SecondWroteScratch ==
  CASE call.op = "forEach" -> Len(pre[call.fn.b]) > 0
    [] call.op = "rotationTo" -> RotationToBranch(Dot3(pre["a2"], pre["b2"])) # "identity"
    [] call.op \in {"sqlerp", "setAxes"} -> TRUE

\* the result of the first invocation: what it left in out, for forEach in
\* the array
FirstResult == IF call.op = "forEach" THEN heap[call.a] ELSE heap[call.out]

\* the result of the first invocation computed from the data of the second:
\* its own last part applied to the scratch as the second left it
ResultFromSecond ==
  CASE call.op = "forEach" ->
         LET last == LastVectorOf(pre[call.fn.b], call.n)
             factor == IF call.fn.kind = "nestThenScale" THEN Two ELSE One
         IN [p \in DOMAIN pre[call.a] |->
               IF Processed(p - 1)
               THEN RMul(RMul(factor, Sign(VectorNo(p - 1))),
                         last[((p - 1 - call.offset) % call.n) + 1])
               ELSE pre[call.a][p]]
    [] call.op = "rotationTo" ->
         RotationFromScratch(RotationScratch(pre["a2"], pre["b2"]), pre["a"], pre["b"])
    [] call.op = "sqlerp" ->
         SlerpValue(SlerpValue(pre["a2"], pre["d2"], call.nested.t),
                    SlerpValue(pre["b2"], pre["c2"], call.nested.t), Blend(call.t))
    [] call.op = "setAxes" ->
         AxesValue(AxesMatrix(pre["view2"], pre["right2"], pre["up2"]))

\* the result of the first invocation computed from its own data
OwnResult ==
  CASE call.op = "forEach" ->
         [p \in DOMAIN pre[call.a] |->
            IF Processed(p - 1) THEN RMul(Two, pre[call.a][p]) ELSE pre[call.a][p]]
    [] call.op = "rotationTo" ->
         IF RotationToBranch(Dot3(pre["a"], pre["b"])) = "identity"
         THEN Vec4(0, 0, 0, 1)
         ELSE RotationFromScratch(RotationOwnScratch(pre["a"], pre["b"]), pre["a"], pre["b"])
    [] call.op = "sqlerp" ->
         SlerpValue(SlerpValue(pre["a"], pre["d"], call.t),
                    SlerpValue(pre["b"], pre["c"], call.t), Blend(call.t))
    [] call.op = "setAxes" ->
         AxesValue(AxesMatrix(pre["view"], pre["right"], pre["up"]))

\* C9 as stated: whenever a second invocation of the same wrapper runs
\* between the first invocation's write of the scratch and its later read,
\* the scratch then holds the data of the second invocation and the result
\* of the first is computed from it.
C9_SecondInvocationCorruptsFirst ==
  (phase = "done" /\ call.op \in ScratchOps /\ SecondRanInWindow)
    => (SecondWroteScratch /\ FirstResult = ResultFromSecond)

\* C9, amended: when a second invocation of the same wrapper that writes
\* the scratch runs between the first invocation's write of the scratch and
\* its later read, the result of the first is computed from the data of the
\* second instead of its own; a second invocation that does not write the
\* scratch (rotationTo on nearly identical vectors, a forEach over no
\* vectors) leaves the first its own result, as does no second invocation.
C9_WritingSecondInvocationCorruptsFirst ==
  (phase = "done" /\ call.op \in ScratchOps)
    => /\ (SecondRanInWindow /\ SecondWroteScratch) => (FirstResult = ResultFromSecond)
       /\ ~(SecondRanInWindow /\ SecondWroteScratch) => (FirstResult = OwnResult)

\* a rotationTo between two vectors whose result, after a second rotationTo
\* ran in its window, is the one computed from the second's cross product
\* and is not its own
C9_Witness ==
  /\ phase = "done" /\ call.op = "rotationTo" /\ call.nested.ran
  /\ SecondWroteScratch
  /\ FirstResult = ResultFromSecond
  /\ FirstResult # OwnResult


(***************************************************************************)
(* SpecTranspose: two calls of mat2Transpose in a row, the second on the   *)
(* result of the first.  "m" is M, "t1" and "t2" are two other matrices    *)
(* that can receive a result.                                              *)
(***************************************************************************)
TransposeInputs == Mat2s \cup Mat2Others \cup {<<One, NaN, PosInf, Half>>}

InitTranspose ==
  /\ Fresh
  /\ \E m \in TransposeInputs :
       heap = ("m" :> m) @@ ("t1" :> Vec4(7, 8, 9, 6)) @@ ("t2" :> Vec4(1, 0, 0, 1))
  /\ pre = heap

\* mat2Transpose(out, M)
Mat2TransposeOnce(out) ==
  /\ phase = "ready"
  /\ phase' = "once"
  /\ call' = [op |-> "mat2Transpose", out |-> out, a |-> "m"]
  /\ ret' = out
  /\ heap' = mat2Transpose(heap, out, "m")
  /\ UNCHANGED <<pre, ARRAY_TYPE, stype, born, stack>>

\* mat2Transpose(out, a) with a the matrix the first call wrote
Mat2TransposeAgain(out) ==
  /\ phase = "once"
  /\ phase' = "twice"
  /\ call' = [op |-> "mat2Transpose", out |-> out, a |-> call.out]
  /\ ret' = out
  /\ heap' = mat2Transpose(heap, out, call.out)
  /\ UNCHANGED <<pre, ARRAY_TYPE, stype, born, stack>>

NextTranspose ==
  \/ \E out \in {"m", "t1"} : Mat2TransposeOnce(out)
  \/ \E out \in {"m", "t1", "t2"} : Mat2TransposeAgain(out)

SpecTranspose == InitTranspose /\ [][NextTranspose]_vars

\* C11: transposing M twice gives back exactly M, component for component,
\* when each call writes to its own out and when M is transposed in place
\* by both calls (and in the mixed cases in between).
C11_TransposeTwiceIsIdentity ==
  phase = "twice" => heap[call.out] = pre["m"]

\* a matrix with different off-diagonal elements transposed in place twice
C11_Witness ==
  /\ phase = "twice" /\ call.out = "m" /\ call.a = "m"
  /\ pre["m"][2] # pre["m"][3]
  /\ heap["m"] = pre["m"]


(***************************************************************************)
(* common.ts: round.  Math.floor, Math.round and the remainder operator on *)
(* the extended rationals (Math.round rounds an exact half towards         *)
(* +Infinity; % keeps the sign of the dividend).                           *)
(***************************************************************************)
MathFloor(a) == IF a[2] = 0 THEN a ELSE R(a[1] \div a[2])

MathRound(a) == IF a[2] = 0 THEN a ELSE MathFloor(RAdd(a, Half))

\* the integer part of a finite number, towards zero
Trunc(a) == IF a[1] < 0 THEN RNeg(MathFloor(RNeg(a))) ELSE MathFloor(a)

\* a % b
Rem(a, b) ==
  IF a[2] = 0 \/ IsNaN(b) \/ b = Zero THEN NaN
  ELSE IF b[2] = 0 THEN a
  ELSE RSub(a, RMul(b, Trunc(RDiv(a, b))))

\* round without the test for negative halves
round_noHalfTest(a) == MathRound(a)

round(a) ==
  IF RGe(a, Zero)
  THEN MathRound(a)
  ELSE IF REq(Rem(a, Half), Zero) THEN MathFloor(a) ELSE MathRound(a)

(***************************************************************************)
(* SpecRound: one call of round on a number "a" of the heap; ret is the    *)
(* number returned.                                                        *)
(***************************************************************************)
RoundRange == 6

\* the multiples of 1/8 between -RoundRange and RoundRange, some numbers
\* next to a half, and the three that are not finite
RoundInputs ==
  {Q(k, 8) : k \in (-8 * RoundRange)..(8 * RoundRange)}
    \cup {Q(1, 3), Q(-1, 3), Q(2499999, 1000000), Q(-2499999, 1000000),
          Q(2500001, 1000000), Q(-2500001, 1000000), R(1000001), R(-1000001)}
    \cup {NaN, PosInf, NegInf}

InitRound ==
  /\ Fresh
  /\ \E a \in RoundInputs : heap = ("a" :> a)
  /\ pre = heap

Round ==
  /\ Has("a")
  /\ Done([op |-> "round", a |-> heap["a"]], round(heap["a"]))
  /\ UNCHANGED heap

SpecRound == InitRound /\ [][Round]_vars

IsInteger(r) == r[2] = 1

\* r is at distance 1/2 from a
AtHalf(r, a) == MathAbs(RSub(r, a)) = Half

\* C12: for a finite a the result is an integer at distance at most 1/2
\* from a; when a lies exactly between two integers the result is the
\* upper one for a >= 0 and floor(a), the lower one, for a < 0; and
\* round(-a) = -round(a) for every a (NaN and the infinities are returned
\* as they are).
C12_RoundIsSymmetricNearest ==
  (phase = "done" /\ call.op = "round") =>
     LET a == call.a
     IN /\ IsFinite(a) =>
             /\ IsInteger(ret)
             /\ RLe(MathAbs(RSub(ret, a)), Half)
             /\ (AtHalf(ret, a) /\ RGe(a, Zero)) => RGt(ret, a)
             /\ (AtHalf(ret, a) /\ RLt(a, Zero)) => ret = MathFloor(a)
        /\ ~IsFinite(a) => ret = a
        /\ round(RNeg(a)) = RNeg(ret)

\* round(-5/2) = -3
C12_Witness ==
  phase = "done" /\ call.op = "round" /\ call.a = Q(-5, 2) /\ ret = R(-3)


(***************************************************************************)
(* quatFromEuler.  An Euler angle in degrees is given as an Angle: x *     *)
(* Math.PI / 360 is half the angle in radians, whose sine and cosine the   *)
(* record carries.  The order is a string, "undefined" when the argument   *)
(* is omitted.                                                             *)
(***************************************************************************)
ANGLE_ORDER == "zyx"

EulerOrders == {"xyz", "xzy", "yxz", "yzx", "zxy", "zyx"}

\* the default value of the parameter
EulerOrderGiven(order) == IF order = "undefined" THEN ANGLE_ORDER ELSE order

Mul3(a, b, c) == RMul(RMul(a, b), c)

\* sx*cy*cz + s1 * cx*sy*sz, cx*sy*cz + s2 * sx*cy*sz,
\* cx*cy*sz + s3 * sx*sy*cz, cx*cy*cz + s4 * sx*sy*sz
EulerValues(sx, cx, sy, cy, sz, cz, s1, s2, s3, s4) ==
  <<RAdd(Mul3(sx, cy, cz), RMul(R(s1), Mul3(cx, sy, sz))),
    RAdd(Mul3(cx, sy, cz), RMul(R(s2), Mul3(sx, cy, sz))),
    RAdd(Mul3(cx, cy, sz), RMul(R(s3), Mul3(sx, sy, cz))),
    RAdd(Mul3(cx, cy, cz), RMul(R(s4), Mul3(sx, sy, sz)))>>

\* the signs of the second terms in the six cases of the switch
EulerSigns(order) ==
  CASE order = "xyz" -> <<1, -1, 1, -1>>
    [] order = "xzy" -> <<-1, -1, 1, 1>>
    [] order = "yxz" -> <<1, -1, -1, 1>>
    [] order = "yzx" -> <<1, 1, -1, -1>>
    [] order = "zxy" -> <<-1, 1, 1, -1>>
    [] order = "zyx" -> <<-1, 1, -1, 1>>

quatFromEulerCase(h, out, x, y, z, order) ==
  LET s == EulerSigns(order)
  IN WrAll(h, out, EulerValues(x.sinHalf, x.cosHalf, y.sinHalf, y.cosHalf,
                               z.sinHalf, z.cosHalf, s[1], s[2], s[3], s[4]))

\* quatFromEuler whose default case computes the zyx result
quatFromEuler_noThrow(h, out, x, y, z, order) ==
  IF EulerOrderGiven(order) \in EulerOrders
  THEN quatFromEulerCase(h, out, x, y, z, EulerOrderGiven(order))
  ELSE quatFromEulerCase(h, out, x, y, z, "zyx")

quatFromEuler(h, out, x, y, z, order) ==
  IF EulerOrderGiven(order) \in EulerOrders
  THEN quatFromEulerCase(h, out, x, y, z, EulerOrderGiven(order))
  ELSE h

\* out, or "throw" for the Error of the default case
quatFromEulerRet(out, order) ==
  IF EulerOrderGiven(order) \in EulerOrders THEN out ELSE "throw"

(***************************************************************************)
(* SpecEuler: one call of quatFromEuler on the quaternion "out"            *)
(***************************************************************************)
\* 0, 360, about 147.5, about -147.5 and about 45.2 degrees
EulerAngles == {AngleZero, AnglePi, AngleA, AngleB,
                Angle(Q(789, 1000), Q(5, 13), Q(12, 13))}

EulerOrderInputs == EulerOrders \cup {"undefined", "null", "", "XYZ", "zy", "abc"}

InitEuler ==
  /\ Fresh
  /\ \E q \in {Vec4(0, 0, 0, 1), Vec4(7, 8, 9, 6)} : heap = ("out" :> q)
  /\ pre = heap

QuatFromEuler(x, y, z, order) ==
  /\ Has("out")
  /\ Done([op |-> "quatFromEuler", out |-> "out", x |-> x, y |-> y, z |-> z,
           order |-> order], quatFromEulerRet("out", order))
  /\ heap' = quatFromEuler(heap, "out", x, y, z, order)

NextEuler ==
  \E x \in EulerAngles, y \in EulerAngles, z \in EulerAngles, order \in EulerOrderInputs :
    QuatFromEuler(x, y, z, order)

SpecEuler == InitEuler /\ [][NextEuler]_vars

\* C13: for each of the six orders, and for an omitted order, which is
\* zyx, quatFromEuler returns out, holding the four components of that
\* order; for any other order it throws and out is as it was before.
C13_FromEulerOrders ==
  (phase = "done" /\ call.op = "quatFromEuler") =>
     IF call.order \in EulerOrders \cup {"undefined"}
     THEN /\ ret = call.out
          /\ heap = quatFromEulerCase(pre, call.out, call.x, call.y, call.z,
                                      IF call.order = "undefined" THEN "zyx" ELSE call.order)
     ELSE ret = "throw" /\ heap = pre

\* an unknown order on a quaternion that any of the six cases would change
C13_Witness ==
  /\ phase = "done" /\ call.op = "quatFromEuler" /\ call.order = "abc"
  /\ ret = "throw" /\ heap = pre
  /\ quatFromEulerCase(pre, "out", call.x, call.y, call.z, "zyx") # pre


(***************************************************************************)
(* quad2d.ts: quad2dTransformMat2d and quad2dUntransformMat2d.  A Quad2d   *)
(* is a record of the ids of its ij (a Mat2) and its k (a Vec2).           *)
(***************************************************************************)
\* out[i] = a[j] + b[k] and out[i] = a[j] - b[k]
WrAdd(h, out, i, a, j, b, k) == Wr(h, out, i, RAdd(Rd(h, a, j), Rd(h, b, k)))
WrSub(h, out, i, a, j, b, k) == Wr(h, out, i, RSub(Rd(h, a, j), Rd(h, b, k)))

quad2dTransformMat2d(h, out, quad, matrix) ==
  WrAdd(WrAdd(mat2Multiply(h, h[out].ij, h[quad].ij, matrix),
              h[out].k, 0, h[quad].k, 0, matrix, 4),
        h[out].k, 1, h[quad].k, 1, matrix, 5)

quad2dUntransformMat2d(h, out, source, target) ==
  WrSub(WrSub(mat2Multiply(mat2Invert(h, out, h[source].ij), out, h[target].ij, out),
              out, 4, h[target].k, 0, h[source].k, 0),
        out, 5, h[target].k, 1, h[source].k, 1)

(***************************************************************************)
(* SpecQuad: either one call quad2dTransformMat2d(out, quad, M), out being *)
(* "out" or the quad itself, or the call quad2dUntransformMat2d(m, quad,   *)
(* target) followed by quad2dTransformMat2d(out, quad, m).                 *)
(***************************************************************************)
\* linear parts: the identity, a scaling, a shear, a quarter turn, a
\* general matrix and a singular one
QuadLinears == {Vec4(1, 0, 0, 1), Vec4(2, 0, 0, 1), Vec4(1, 0, 1, 1), Vec4(0, 1, -1, 0),
                Vec4(1, 2, 3, 4), Vec4(1, 2, 2, 4)}
QuadPoints == {<<R(0), R(0)>>, <<R(1), R(-2)>>, <<R(3), R(5)>>}

QuadObject(name) == [ij |-> name \o ".ij", k |-> name \o ".k"]

InitQuad ==
  /\ Fresh
  /\ \E q \in QuadLinears, qk \in QuadPoints, t \in QuadLinears, tk \in QuadPoints :
       heap = ("quad" :> QuadObject("quad")) @@ ("target" :> QuadObject("target"))
                @@ ("out" :> QuadObject("out"))
                @@ ("quad.ij" :> q) @@ ("quad.k" :> qk)
                @@ ("target.ij" :> t) @@ ("target.k" :> tk)
                @@ ("out.ij" :> Vec4(1, 0, 0, 1)) @@ ("out.k" :> <<R(0), R(0)>>)
                @@ ("M" :> t \o tk) @@ ("m" :> Mat2dOut)
  /\ pre = heap

Quad2dTransformMat2d(out) ==
  /\ Has("quad")
  /\ Done([op |-> "quad2dTransformMat2d", out |-> out, quad |-> "quad", matrix |-> "M"], out)
  /\ heap' = quad2dTransformMat2d(heap, out, "quad", "M")

Quad2dUntransformMat2d ==
  /\ Has("quad")
  /\ phase = "ready"
  /\ phase' = "derived"
  /\ call' = [op |-> "quad2dUntransformMat2d", out |-> "m", source |-> "quad",
              target |-> "target"]
  /\ ret' = "m"
  /\ heap' = quad2dUntransformMat2d(heap, "m", "quad", "target")
  /\ UNCHANGED <<pre, ARRAY_TYPE, stype, born, stack>>

Quad2dTransformDerived ==
  /\ phase = "derived"
  /\ phase' = "mapped"
  /\ call' = [op |-> "quad2dTransformMat2d", out |-> "out", quad |-> "quad", matrix |-> "m"]
  /\ ret' = "out"
  /\ heap' = quad2dTransformMat2d(heap, "out", "quad", "m")
  /\ UNCHANGED <<pre, ARRAY_TYPE, stype, born, stack>>

NextQuad ==
  \/ \E out \in {"out", "quad"} : Quad2dTransformMat2d(out)
  \/ Quad2dUntransformMat2d
  \/ Quad2dTransformDerived

SpecQuad == InitQuad /\ [][NextQuad]_vars

\* the product a * b of two 2x2 matrices in column-major layout
Mat2Product(a, b) ==
  <<Mul2(a[1], b[1], a[3], b[2]), Mul2(a[2], b[1], a[4], b[2]),
    Mul2(a[1], b[3], a[3], b[4]), Mul2(a[2], b[3], a[4], b[4])>>

\* the affine matrix m applied to the point v
Mat2dApply(m, v) ==
  <<RAdd(Mul2(m[1], v[1], m[3], v[2]), m[5]), RAdd(Mul2(m[2], v[1], m[4], v[2]), m[6])>>

\* C14 as stated: quad2dTransformMat2d(out, quad, M) leaves in out.ij the
\* product of the linear part of M, on the left, and quad.ij, and in out.k
\* the point quad.k transformed by M.
C14_TransformPremultiplies ==
  (phase = "done" /\ call.op = "quad2dTransformMat2d") =>
     /\ heap[heap[call.out].ij] = Mat2Product(SubSeq(pre["M"], 1, 4), pre["quad.ij"])
     /\ heap[heap[call.out].k] = Mat2dApply(pre["M"], pre["quad.k"])

\* what the code computes: quad.ij times the linear part of M, M on the
\* right, and quad.k moved by the translation of M
Quad2dTransformComputes ==
  (phase = "done" /\ call.op = "quad2dTransformMat2d") =>
     /\ heap[heap[call.out].ij] = Mat2Product(pre["quad.ij"], SubSeq(pre["M"], 1, 4))
     /\ heap[heap[call.out].k] =
          <<RAdd(pre["quad.k"][1], pre["M"][5]), RAdd(pre["quad.k"][2], pre["M"][6])>>

\* C15 as stated: for a source quad with an invertible ij, the quad that
\* quad2dTransformMat2d makes of the source and the matrix of
\* quad2dUntransformMat2d(m, source, target) has the ij and the k of target.
C15_UntransformMapsSourceOntoTarget ==
  (phase = "mapped" /\ ~Falsy(mat2Determinant(pre, "quad.ij"))) =>
     /\ heap["out.ij"] = pre["target.ij"]
     /\ heap["out.k"] = pre["target.k"]


(***************************************************************************)
(* rect.ts: rectSetCenter, rectMix and rectUntransformMat2d, and           *)
(* vec2TransformMat2d of vec2.ts                                           *)
(***************************************************************************)
\* rectSetCenterX(out, rect, center[i])
rectSetCenterXAt(h, out, rect, center, i) == rectSetCenterX(h, out, rect, Rd(h, center, i))

\* both of its calls are calls of rectSetCenterX
rectSetCenter(h, out, rect, center) ==
  rectSetCenterXAt(rectSetCenterXAt(h, out, rect, center, 0), out, rect, center, 1)

\* rect.ts imports mix from "./common", and common.ts exports no mix: the
\* imported binding is undefined, the first call of it in rectMix throws a
\* TypeError and out is not written
rectMix(h, out, source, target, t) == h

rectMixRet(out) == "throw"

\* out[i] = the value v
rectUntransformMat2d(h, out, source, target) ==
  WrAll(h, out, <<RDiv(h[target].width, h[source].width), Zero, Zero,
                  RDiv(h[target].height, h[source].height),
                  RSub(rectCenterX(h, target), rectCenterX(h, source)),
                  RSub(rectCenterY(h, target), rectCenterY(h, source))>>)

vec2TransformMat2d(h, out, a, m) ==
  WrAll(h, out,
        <<RAdd(Mul2(Rd(h, m, 0), Rd(h, a, 0), Rd(h, m, 2), Rd(h, a, 1)), Rd(h, m, 4)),
          RAdd(Mul2(Rd(h, m, 1), Rd(h, a, 0), Rd(h, m, 3), Rd(h, a, 1)), Rd(h, m, 5))>>)

(***************************************************************************)
(* SpecRectOps: one call on the rects "r" (the source, also the rect set   *)
(* in place) and "t" (the target), the rect "o", the vector "c" and the    *)
(* matrix "m".                                                             *)
(***************************************************************************)
RectTargets == {Rect(Zero, Zero, One, One), Rect(Zero, Zero, R(4), R(4)),
                Rect(R(1), R(-1), R(2), R(6)), Rect(R(-3), R(2), Zero, R(5))}
RectCenters == {<<R(0), R(0)>>, <<R(3), R(5)>>, <<Q(-1, 2), R(2)>>}
MixTs == {Zero, Half, One, Two}

InitRectOps ==
  /\ Fresh
  /\ \E r \in Rects, t \in RectTargets, c \in RectCenters :
       heap = ("r" :> r) @@ ("t" :> t) @@ ("o" :> Rect(R(5), R(7), R(11), R(13)))
                @@ ("c" :> c) @@ ("m" :> Mat2dOut)
  /\ pre = heap

RectSetCenterX(i) ==
  /\ Done([op |-> "rectSetCenterX", out |-> "r", rect |-> "r", cx |-> heap["c"][i]], "r")
  /\ heap' = rectSetCenterX(heap, "r", "r", heap["c"][i])

RectSetCenterY(i) ==
  /\ Done([op |-> "rectSetCenterY", out |-> "r", rect |-> "r", cy |-> heap["c"][i]], "r")
  /\ heap' = rectSetCenterY(heap, "r", "r", heap["c"][i])

RectSetCenter ==
  /\ Done([op |-> "rectSetCenter", out |-> "r", rect |-> "r", center |-> "c"], "r")
  /\ heap' = rectSetCenter(heap, "r", "r", "c")

RectMix(out, t) ==
  /\ Done([op |-> "rectMix", out |-> out, source |-> "r", target |-> "t", t |-> t],
          rectMixRet(out))
  /\ heap' = rectMix(heap, out, "r", "t", t)

RectUntransformMat2d ==
  /\ Done([op |-> "rectUntransformMat2d", out |-> "m", source |-> "r", target |-> "t"], "m")
  /\ heap' = rectUntransformMat2d(heap, "m", "r", "t")

NextRectOps ==
  \/ \E i \in {1, 2} : RectSetCenterX(i)
  \/ \E i \in {1, 2} : RectSetCenterY(i)
  \/ RectSetCenter
  \/ \E out \in {"o", "r"}, t \in MixTs : RectMix(out, t)
  \/ RectUntransformMat2d

SpecRectOps == InitRectOps /\ [][NextRectOps]_vars

\* the centre and the four corners of a rect
RectPoints(r) ==
  <<<<RAdd(r.x, RDiv(r.width, Two)), RAdd(r.y, RDiv(r.height, Two))>>,
    <<r.x, r.y>>, <<RAdd(r.x, r.width), r.y>>,
    <<r.x, RAdd(r.y, r.height)>>, <<RAdd(r.x, r.width), RAdd(r.y, r.height)>>>>

\* vec2TransformMat2d(p, p, m) on the values of a point and a matrix
TransformPoint(m, p) == vec2TransformMat2d(("p" :> p) @@ ("m" :> m), "p", "p", "m")["p"]

\* C16 as stated: for a source of nonzero width and height, the matrix of
\* rectUntransformMat2d(out, source, target) takes the centre of source to
\* the centre of target and each corner of source to the same corner of
\* target.
C16_RectUntransformMapsSourceOntoTarget ==
  (phase = "done" /\ call.op = "rectUntransformMat2d"
     /\ pre["r"].width # Zero /\ pre["r"].height # Zero) =>
     \A i \in 1..5 :
        TransformPoint(heap["m"], RectPoints(pre["r"])[i]) = RectPoints(pre["t"])[i]

\* the matrix does scale by the ratios of the sizes, and it takes the
\* centre of source to the centre of target when the sizes are equal
RectUntransformComputes ==
  (phase = "done" /\ call.op = "rectUntransformMat2d"
     /\ pre["r"].width # Zero /\ pre["r"].height # Zero) =>
     /\ heap["m"][1] = RDiv(pre["t"].width, pre["r"].width)
     /\ heap["m"][4] = RDiv(pre["t"].height, pre["r"].height)
     /\ (pre["t"].width = pre["r"].width /\ pre["t"].height = pre["r"].height)
          => TransformPoint(heap["m"], RectPoints(pre["r"])[1]) = RectPoints(pre["t"])[1]

\* C17 as stated: after rectSetCenterX(r, r, cx), rectSetCenterY(r, r, cy)
\* and rectSetCenter(r, r, c) the centre of r is at the requested
\* coordinates, the width and the height of r are what they were, and after
\* a setter of one axis the position on the other axis is what it was.
C17_SetCenterMovesCenter ==
  (phase = "done" /\ call.op \in {"rectSetCenterX", "rectSetCenterY", "rectSetCenter"}) =>
     /\ heap["r"].width = pre["r"].width
     /\ heap["r"].height = pre["r"].height
     /\ call.op = "rectSetCenterX" =>
          rectCenterX(heap, "r") = call.cx /\ heap["r"].y = pre["r"].y
     /\ call.op = "rectSetCenterY" =>
          rectCenterY(heap, "r") = call.cy /\ heap["r"].x = pre["r"].x
     /\ call.op = "rectSetCenter" =>
          rectCenterX(heap, "r") = pre["c"][1] /\ rectCenterY(heap, "r") = pre["c"][2]

\* the two single-axis setters do what C17 says
RectSetCenterAxisCorrect ==
  (phase = "done" /\ call.op \in {"rectSetCenterX", "rectSetCenterY"}) =>
     /\ heap["r"].width = pre["r"].width
     /\ heap["r"].height = pre["r"].height
     /\ call.op = "rectSetCenterX" =>
          rectCenterX(heap, "r") = call.cx /\ heap["r"].y = pre["r"].y
     /\ call.op = "rectSetCenterY" =>
          rectCenterY(heap, "r") = call.cy /\ heap["r"].x = pre["r"].x

\* a + t * (b - a)
Blended(a, b, t) == RAdd(a, RMul(t, RSub(b, a)))

\* C19 as stated: rectMix(out, source, target, t) returns out with each of
\* x, y, width and height the blend source + t * (target - source) of the
\* two fields.
C19_RectMixBlends ==
  (phase = "done" /\ call.op = "rectMix") =>
     /\ ret = call.out
     /\ heap[call.out] =
          Rect(Blended(pre["r"].x, pre["t"].x, call.t),
               Blended(pre["r"].y, pre["t"].y, call.t),
               Blended(pre["r"].width, pre["t"].width, call.t),
               Blended(pre["r"].height, pre["t"].height, call.t))


\* C18 as stated: for a source of nonzero height, rectSetAspectRatio(out,
\* source, aspectRatio, compare) leaves out.width = aspectRatio * out.height.
C18_AspectRatioIsSet ==
  (phase = "done" /\ call.op = "rectSetAspectRatio" /\ pre["s"].height # Zero) =>
     heap[call.out].width = RMul(call.ar, heap[call.out].height)

\* a distinct out of rectSetAspectRatio has the proportions of the source
RectSetAspectRatioKeepsSourceRatio ==
  (phase = "done" /\ call.op = "rectSetAspectRatio" /\ call.out = "o"
     /\ pre["s"].height # Zero) =>
     RMul(heap["o"].width, pre["s"].height) = RMul(heap["o"].height, pre["s"].width)

(***************************************************************************)
(* mat2.ts: mat2LDU                                                        *)
(***************************************************************************)
\* U[3] = a[3] - L[2] * U[1]
mat2LDULast(h, U, L, a) == Wr(h, U, 3, RSub(Rd(h, a, 3), RMul(Rd(h, L, 2), Rd(h, U, 1))))

mat2LDU(h, L, D, U, a) ==
  mat2LDULast(Copy(Copy(Wr(h, L, 2, RDiv(Rd(h, a, 2), Rd(h, a, 0))), U, 0, a, 0),
                   U, 1, a, 1), U, L, a)

IdentityMat2 == <<One, Zero, Zero, One>>

LDUEntries == {R(i) : i \in -2..2}
LDUInputs == {<<a0, a1, a2, a3>> : a0 \in LDUEntries, a1 \in LDUEntries,
                                   a2 \in LDUEntries, a3 \in LDUEntries}
LDUOuts == {IdentityMat2, <<R(2), R(3), R(4), R(5)>>}

InitLDU ==
  /\ Fresh
  /\ \E a \in LDUInputs, o \in LDUOuts :
       heap = ("L" :> o) @@ ("D" :> o) @@ ("U" :> o) @@ ("a" :> a)
  /\ pre = heap

Mat2LDU ==
  /\ Done([op |-> "mat2LDU", L |-> "L", D |-> "D", U |-> "U", a |-> "a"], <<"L", "D", "U">>)
  /\ heap' = mat2LDU(heap, "L", "D", "U", "a")

SpecLDU == InitLDU /\ [][Mat2LDU]_vars

LDUCase ==
  /\ phase = "done" /\ call.op = "mat2LDU"
  /\ pre["a"][1] # Zero
  /\ pre["L"] = IdentityMat2 /\ pre["D"] = IdentityMat2 /\ pre["U"] = IdentityMat2

\* C20 as stated: for a[0] # 0 and L, D, U the identity, mat2LDU leaves L
\* lower triangular with a unit diagonal, D diagonal and U upper triangular
\* in the column-major layout (the entry of row r and column c at index
\* 2 * c + r), and mat2Multiply(L, mat2Multiply(D, U)) is a.
C20_LDUFactorizes ==
  LDUCase =>
     /\ heap["L"][1] = One /\ heap["L"][4] = One /\ heap["L"][3] = Zero
     /\ heap["D"][2] = Zero /\ heap["D"][3] = Zero
     /\ heap["U"][2] = Zero
     /\ Mat2Product(heap["L"], Mat2Product(heap["D"], heap["U"])) = pre["a"]

\* the factors multiply to a in the opposite order
LDUReversedProduct ==
  LDUCase => Mat2Product(heap["U"], Mat2Product(heap["D"], heap["L"])) = pre["a"]


(***************************************************************************)
(* quad2d.ts: the constructors and the scaling operations of a quad        *)
(***************************************************************************)
vec2Copy(h, out, a) == Copy(Copy(h, out, 0, a, 0), out, 1, a, 1)

vec2Zero(h, out) == Wr(Wr(h, out, 0, Zero), out, 1, Zero)

\* the ij and the k of a new quad
quad2dCreate == [ij |-> mat2Create, k |-> vec2Create]

\* quad2dReset resets out.ij with mat2dIdentity, the identity of the 2x3
\* matrices, which writes the six indices 0..5
quad2dReset(h, out) == vec2Zero(mat2dIdentity(h, h[out].ij), h[out].k)

\* out.ij = [w, 0, 0, h] and out.k = [x, y]
quad2dWrite(h, out, w, hh, x, y) ==
  WrAll(WrAll(h, h[out].ij, <<w, Zero, Zero, hh>>), h[out].k, <<x, y>>)

quad2dFromRect(h, out, rect) ==
  quad2dWrite(h, out, RDiv(h[rect].width, Two), RDiv(h[rect].height, Two),
              RAdd(h[rect].x, RDiv(h[rect].width, Two)),
              RAdd(h[rect].y, RDiv(h[rect].height, Two)))

quad2dFromRectMat2d(h, out, rect, matrix) ==
  quad2dTransformMat2d(quad2dFromRect(h, out, rect), out, out, matrix)

\* w and h are read from size before the first write; position is read
\* after out.ij is written
quad2dFromPositionSize(h, out, position, size) ==
  Copy(Copy(WrAll(h, h[out].ij,
                  <<RDiv(Rd(h, size, 0), Two), Zero, Zero, RDiv(Rd(h, size, 1), Two)>>),
            h[out].k, 0, position, 0),
       h[out].k, 1, position, 1)

\* out.ij[0] = source.ij[0] * s; out.ij[3] = source.ij[3] * s
quad2dScale(h, out, source, s) ==
  CopyTimes(CopyTimes(h, h[out].ij, 0, h[source].ij, 0, s), h[out].ij, 3, h[source].ij, 3, s)

\* the sy of quad2dSetAspectRatio
quad2dRatioScale(h, source, aspectRatio) ==
  IF REq(Rd(h, h[source].ij, 3), Zero)
  THEN aspectRatio
  ELSE RDiv(RMul(Rd(h, h[source].ij, 0), aspectRatio), Rd(h, h[source].ij, 3))

quad2dSetAspectRatio(h, out, source, aspectRatio, cmp) ==
  vec2Copy(quad2dScale(h, out, source, Compare(cmp, One, quad2dRatioScale(h, source, aspectRatio))),
           h[out].k, h[source].k)

\* the function has no return statement
quad2dSetAspectRatioRet(out) == "undefined"

quad2dFit(h, out, source, target, cmp) ==
  vec2Copy(quad2dScale(h, out, source,
                       Compare(cmp, RDiv(Rd(h, h[target].ij, 0), Rd(h, h[source].ij, 0)),
                                    RDiv(Rd(h, h[target].ij, 3), Rd(h, h[source].ij, 3)))),
           h[out].k, h[target].k)

(***************************************************************************)
(* SpecQuadOps: up to MaxCalls calls of the quad operations on the quad    *)
(* "q", which quad2dCreate made while ARRAY_TYPE was Array (the initial    *)
(* value) or Float32Array.  A Float32Array has a fixed length: a write at  *)
(* or beyond it is dropped.                                                *)
(***************************************************************************)
MaxCalls == 2

\* the heap h1 after a call made on h0: the typed arrays keep their length
Stored(h0, h1, st) ==
  [o \in DOMAIN h1 |->
     IF o \in DOMAIN st /\ st[o] = "Float32Array" /\ Len(h1[o]) > Len(h0[o])
     THEN SubSeq(h1[o], 1, Len(h0[o]))
     ELSE h1[o]]

QuadRects == {"r", "r2"}
QuadMatrices == {"M", "M2"}
QuadSources == {"s", "q"}

InitQuadOps ==
  /\ phase = "ready"
  /\ call = [op |-> "none", n |-> 0]
  /\ ret = "undefined"
  /\ ARRAY_TYPE \in ArrayTypes
  /\ stype = ("q.ij" :> quad2dCreate.ij.stype) @@ ("q.k" :> quad2dCreate.k.stype)
  /\ born = ("q.ij" :> ARRAY_TYPE) @@ ("q.k" :> ARRAY_TYPE)
  /\ stack = <<>>
  /\ heap = ("q" :> QuadObject("q")) @@ ("s" :> QuadObject("s")) @@ ("t" :> QuadObject("t"))
              @@ ("q.ij" :> quad2dCreate.ij.val) @@ ("q.k" :> quad2dCreate.k.val)
              @@ ("s.ij" :> Vec4(2, 0, 0, 1)) @@ ("s.k" :> <<R(1), R(-2)>>)
              @@ ("t.ij" :> Vec4(3, 1, 0, 4)) @@ ("t.k" :> <<R(3), R(5)>>)
              @@ ("r" :> Rect(R(0), R(0), R(4), R(2))) @@ ("r2" :> Rect(R(-1), R(2), R(0), R(3)))
              @@ ("M" :> <<R(0), R(1), R(-1), R(0), R(2), R(3)>>)
              @@ ("M2" :> <<R(2), R(0), R(0), Half, R(0), R(-1)>>)
              @@ ("position" :> <<R(1), R(1)>>) @@ ("size" :> <<R(6), R(2)>>)
  /\ pre = heap

\* the bookkeeping of a completed quad call
QuadDone(c, r, h) ==
  /\ call.n < MaxCalls
  /\ call' = [c EXCEPT !.n = call.n + 1]
  /\ ret' = r
  /\ pre' = heap
  /\ heap' = Stored(heap, h, stype)
  /\ UNCHANGED <<phase, ARRAY_TYPE, stype, born, stack>>

\* q = quad2dCreate()
Quad2dCreate ==
  QuadDone([op |-> "quad2dCreate", n |-> 0], "q",
           [heap EXCEPT !["q.ij"] = quad2dCreate.ij.val, !["q.k"] = quad2dCreate.k.val])

Quad2dReset ==
  QuadDone([op |-> "quad2dReset", out |-> "q", n |-> 0], "q", quad2dReset(heap, "q"))

Quad2dFromRect(rect) ==
  QuadDone([op |-> "quad2dFromRect", out |-> "q", rect |-> rect, n |-> 0], "q",
           quad2dFromRect(heap, "q", rect))

Quad2dFromRectMat2d(rect, matrix) ==
  QuadDone([op |-> "quad2dFromRectMat2d", out |-> "q", rect |-> rect, matrix |-> matrix,
            n |-> 0], "q",
           quad2dFromRectMat2d(heap, "q", rect, matrix))

Quad2dFromPositionSize ==
  QuadDone([op |-> "quad2dFromPositionSize", out |-> "q", n |-> 0], "q",
           quad2dFromPositionSize(heap, "q", "position", "size"))

Quad2dTransform(quad, matrix) ==
  QuadDone([op |-> "quad2dTransformMat2d", out |-> "q", quad |-> quad, matrix |-> matrix,
            n |-> 0], "q",
           quad2dTransformMat2d(heap, "q", quad, matrix))

Quad2dSetAspectRatio(source, ar, cmp) ==
  QuadDone([op |-> "quad2dSetAspectRatio", out |-> "q", source |-> source, ar |-> ar,
            cmp |-> cmp, n |-> 0], quad2dSetAspectRatioRet("q"),
           quad2dSetAspectRatio(heap, "q", source, ar, cmp))

Quad2dFit(source, cmp) ==
  QuadDone([op |-> "quad2dFit", out |-> "q", source |-> source, target |-> "t",
            cmp |-> cmp, n |-> 0], "q",
           quad2dFit(heap, "q", source, "t", cmp))

NextQuadOps ==
  \/ Quad2dCreate
  \/ Quad2dReset
  \/ \E rect \in QuadRects : Quad2dFromRect(rect)
  \/ \E rect \in QuadRects, matrix \in QuadMatrices : Quad2dFromRectMat2d(rect, matrix)
  \/ Quad2dFromPositionSize
  \/ \E quad \in QuadSources, matrix \in QuadMatrices : Quad2dTransform(quad, matrix)
  \/ \E source \in QuadSources, ar \in {Half, Two}, cmp \in {"min", "max"} :
       Quad2dSetAspectRatio(source, ar, cmp)
  \/ \E source \in QuadSources, cmp \in {"min", "max"} : Quad2dFit(source, cmp)

SpecQuadOps == InitQuadOps /\ [][NextQuadOps]_vars

QuadOutOps == {"quad2dReset", "quad2dFromRect", "quad2dFromRectMat2d", "quad2dFromPositionSize",
               "quad2dTransformMat2d", "quad2dSetAspectRatio", "quad2dFit"}

\* C21 as stated: an operation with an out argument that completes without
\* signalling an error returns its out object; quad2dSetAspectRatio is one
\* of these operations.
C21_OperationsReturnOut ==
  call.op \in QuadOutOps => ret = call.out

\* every quad operation with an out argument but quad2dSetAspectRatio
\* returns out
QuadOpsReturnOut ==
  (call.op \in QuadOutOps /\ call.op # "quad2dSetAspectRatio") => ret = call.out

\* C29 as stated: after any sequence of the quad operations the ij of the
\* quad holds exactly 4 elements and its k exactly 2, and after quad2dReset
\* ij is [1, 0, 0, 1] and k is [0, 0].
C29_QuadShapeKept ==
  /\ Len(heap["q.ij"]) = 4
  /\ Len(heap["q.k"]) = 2
  /\ call.op = "quad2dReset" =>
       heap["q.ij"] = Vec4(1, 0, 0, 1) /\ heap["q.k"] = <<Zero, Zero>>

\* the k of the quad always holds 2 elements, its ij 4 when its storage is
\* a Float32Array, and no operation other than quad2dReset changes the
\* length of ij
QuadShapeKeptButReset ==
  /\ Len(heap["q.k"]) = 2
  /\ stype["q.ij"] = "Float32Array" => Len(heap["q.ij"]) = 4
  /\ (call.op # "none" /\ call.op # "quad2dReset" /\ call.op # "quad2dCreate")
        => Len(heap["q.ij"]) = Len(pre["q.ij"])


\* other initial contents of the out matrix of quad2dUntransformMat2d
UntransformOuts == {<<R(0), R(0), R(0), R(0), R(0), R(0)>>,
                    <<R(2), R(3), R(5), R(7), R(11), R(13)>>}

\* the out of the untransform call of this state made with o in out
UntransformFrom(o) ==
  quad2dUntransformMat2d([pre EXCEPT !["m"] = o], "m", "quad", "target")["m"]

\* C30 as stated: the six values quad2dUntransformMat2d leaves in out are
\* determined by source and target alone, also for a source whose ij is
\* singular: the call made with other initial contents of out leaves the
\* same contents in out.
C30_UntransformIgnoresOut ==
  phase = "derived" => \A o \in UntransformOuts : UntransformFrom(o) = heap["m"]

\* the same for the sources whose ij is invertible
UntransformIgnoresOutWhenInvertible ==
  (phase = "derived" /\ mat2InvertRet(pre, "m", "quad.ij") # "null")
     => \A o \in UntransformOuts : UntransformFrom(o) = heap["m"]


(***************************************************************************)
(* The normalizations: vec2Normalize, vec3Normalize, vec4Normalize         *)
(* (quatNormalize) and quat2Normalize                                      *)
(***************************************************************************)
vec2SquaredLength(h, a) == Mul2(Rd(h, a, 0), Rd(h, a, 0), Rd(h, a, 1), Rd(h, a, 1))

vec2Times(h, out, a, len) == CopyTimes(CopyTimes(h, out, 0, a, 0, len), out, 1, a, 1, len)

vec2Normalize(h, out, a) == vec2Times(h, out, a, InverseLength(vec2SquaredLength(h, a)))

\* a[i] / magnitude
quat2Real(h, a, i, magnitude) == RDiv(Rd(h, a, i), magnitude)

\* a_dot_b of the normalized real part and the dual part
quat2RealDotDual(h, a, m) ==
  RAdd(RAdd(Mul2(quat2Real(h, a, 0, m), Rd(h, a, 4), quat2Real(h, a, 1, m), Rd(h, a, 5)),
            RMul(quat2Real(h, a, 2, m), Rd(h, a, 6))),
       RMul(quat2Real(h, a, 3, m), Rd(h, a, 7)))

\* (b_i - a_i * a_dot_b) / magnitude
quat2Dual(h, a, i, m) ==
  RDiv(RSub(Rd(h, a, 4 + i), RMul(quat2Real(h, a, i, m), quat2RealDotDual(h, a, m))), m)

\* the writes of quat2Normalize for the magnitude m
quat2NormalizeBy(h, out, a, m) ==
  WrAll(h, out, <<quat2Real(h, a, 0, m), quat2Real(h, a, 1, m), quat2Real(h, a, 2, m),
                  quat2Real(h, a, 3, m), quat2Dual(h, a, 0, m), quat2Dual(h, a, 1, m),
                  quat2Dual(h, a, 2, m), quat2Dual(h, a, 3, m)>>)

quat2Normalize(h, out, a) ==
  IF RGt(vec4SquaredLength(h, a), Zero)
  THEN quat2NormalizeBy(h, out, a, MathSqrt(vec4SquaredLength(h, a)))
  ELSE h

(***************************************************************************)
(* SpecNormalize: one normalization of the vector "a" into "out" or into   *)
(* "a" itself.  The inputs are the vectors whose squared length has a      *)
(* rational square root.                                                   *)
(***************************************************************************)
NormalizeVals == {R(-2), R(0), R(1), R(2)}
NormalizeDuals == {Vec4(0, 0, 0, 0), Vec4(1, 2, 3, 4)}
NormalizeOuts == {<<R(5), R(6), R(7), R(8), R(9), R(10), R(11), R(12)>>,
                  <<NaN, PosInf, R(-1), R(0), R(0), R(1), NaN, R(2)>>}

\* the vectors over vals of the widths 2, 3 and 4, and the dual quaternions
NormalizeInputs ==
  {<<x, y>> : x \in NormalizeVals, y \in NormalizeVals}
    \cup {<<x, y, z>> : x \in NormalizeVals, y \in NormalizeVals, z \in NormalizeVals}
    \cup {<<x, y, z, w>> : x \in NormalizeVals, y \in NormalizeVals, z \in {Zero, One},
                           w \in NormalizeVals}
    \cup {<<x, Zero, Zero, w>> \o d : x \in NormalizeVals, w \in NormalizeVals,
                                      d \in NormalizeDuals}

\* the squared length of the first four, or fewer, elements of v
SquaredLengthOf(v) ==
  IF Len(v) = 2 THEN vec2SquaredLength([a |-> v], "a")
  ELSE IF Len(v) = 3 THEN vec3SquaredLength([a |-> v], "a")
  ELSE vec4SquaredLength([a |-> v], "a")

InitNormalize ==
  /\ Fresh
  /\ \E a \in NormalizeInputs, o \in NormalizeOuts :
       /\ SqrtDefined(SquaredLengthOf(a))
       /\ heap = ("a" :> a) @@ ("out" :> SubSeq(o, 1, Len(a)))
  /\ pre = heap

Vec2Normalize(out) ==
  /\ Len(heap["a"]) = 2
  /\ Done([op |-> "vec2Normalize", out |-> out, a |-> "a"], out)
  /\ heap' = vec2Normalize(heap, out, "a")

Vec3Normalize(out) ==
  /\ Len(heap["a"]) = 3
  /\ Done([op |-> "vec3Normalize", out |-> out, a |-> "a"], out)
  /\ heap' = vec3Normalize(heap, out, "a")

Vec4Normalize(out) ==
  /\ Len(heap["a"]) = 4
  /\ Done([op |-> "vec4Normalize", out |-> out, a |-> "a"], out)
  /\ heap' = vec4Normalize(heap, out, "a")

Quat2Normalize(out) ==
  /\ Len(heap["a"]) = 8
  /\ Done([op |-> "quat2Normalize", out |-> out, a |-> "a"], out)
  /\ heap' = quat2Normalize(heap, out, "a")

NextNormalize ==
  \E out \in {"out", "a"} :
     \/ Vec2Normalize(out)
     \/ Vec3Normalize(out)
     \/ Vec4Normalize(out)
     \/ Quat2Normalize(out)

SpecNormalize == InitNormalize /\ [][NextNormalize]_vars

AllZero(v) == \A i \in DOMAIN v : v[i] = Zero

\* C22: vec2Normalize, vec3Normalize and vec4Normalize of an all-zero
\* vector write all zeros to out and return it without an error;
\* quat2Normalize of a dual quaternion whose real part is all zero returns
\* out without an error and leaves every element of out as it was.
C22_ZeroNormalizesSilently ==
  /\ (phase = "done" /\ call.op \in {"vec2Normalize", "vec3Normalize", "vec4Normalize"}
        /\ AllZero(pre["a"]))
       => ret = call.out /\ AllZero(heap[call.out])
            /\ Len(heap[call.out]) = Len(pre[call.out])
  /\ (phase = "done" /\ call.op = "quat2Normalize" /\ AllZero(SubSeq(pre["a"], 1, 4)))
       => ret = call.out /\ heap[call.out] = pre[call.out]

\* a zero vector of width 3 normalized into an out that held other values
C22_Witness ==
  /\ phase = "done" /\ call.op = "vec3Normalize" /\ call.out = "out"
  /\ AllZero(pre["a"]) /\ ~AllZero(pre["out"])
  /\ AllZero(heap["out"])

\* a dual quaternion with a zero real part and a nonzero dual part, whose
\* out is as it was
QuatNormalizeZeroRealReached ==
  /\ phase = "done" /\ call.op = "quat2Normalize" /\ call.out = "out"
  /\ AllZero(SubSeq(pre["a"], 1, 4)) /\ ~AllZero(pre["a"])
  /\ heap["out"] = pre["out"]


(***************************************************************************)
(* vec2TransformMat2 and the products of SpecMat as compositions           *)
(***************************************************************************)
vec2TransformMat2(h, out, a, m) ==
  WrAll(h, out, <<Mul2(Rd(h, m, 0), Rd(h, a, 0), Rd(h, m, 2), Rd(h, a, 1)),
                  Mul2(Rd(h, m, 1), Rd(h, a, 0), Rd(h, m, 3), Rd(h, a, 1))>>)

\* vec2TransformMat2(p, p, m) on the values of a point and a matrix
TransformLinear(m, p) == vec2TransformMat2(("p" :> p) @@ ("m" :> m), "p", "p", "m")["p"]

ProductVectors == {<<R(0), R(0)>>, <<R(1), R(0)>>, <<R(0), R(1)>>, <<R(2), R(-3)>>,
                   <<Half, R(5)>>}

\* C23: mat2Multiply(out, a, b) and mat2dMultiply(out, a, b) leave in out
\* the product a * b of the column-major convention: transforming a vector
\* by out is transforming it by b and then by a, with vec2TransformMat2 for
\* the 2x2 and vec2TransformMat2d for the 2x3 matrices.
C23_MultiplyComposes ==
  /\ (phase = "done" /\ call.op = "mat2Multiply") =>
       /\ ret = call.out
       /\ \A v \in ProductVectors :
            TransformLinear(heap[call.out], v)
              = TransformLinear(pre[call.a], TransformLinear(pre[call.b], v))
  /\ (phase = "done" /\ call.op = "mat2dMultiply") =>
       /\ ret = call.out
       /\ \A v \in ProductVectors :
            TransformPoint(heap[call.out], v)
              = TransformPoint(pre[call.a], TransformPoint(pre[call.b], v))

\* a product of two matrices that do not commute, written over its first
\* operand
C23_Witness ==
  /\ phase = "done" /\ call.op = "mat2Multiply" /\ call.out = "m" /\ call.b = "n"
  /\ pre["m"] = Vec4(1, 0, 1, 1) /\ pre["n"] = Vec4(1, 2, 3, 4)
  /\ heap["m"] = Vec4(3, 2, 7, 4)

\* a product of two affine matrices with translations
Mat2dProductReached ==
  /\ phase = "done" /\ call.op = "mat2dMultiply" /\ call.out = "do" /\ call.b = "e"
  /\ pre["d"] = <<R(1), R(0), R(1), R(1), R(1), R(-2)>>
  /\ pre["e"] = <<R(1), R(2), R(3), R(4), R(5), R(6)>>
  /\ heap["do"] = <<R(3), R(2), R(7), R(4), R(12), R(4)>>


(***************************************************************************)
(* quat2Multiply against quatMultiply, and quat2Invert                     *)
(***************************************************************************)
\* quatMultiply(o, a, b) on the values of two quaternions
QuatProduct(a, b) ==
  quatMultiply(("a" :> a) @@ ("b" :> b) @@ ("o" :> QuatOut), "o", "a", "b")["o"]

RealPart(v) == SubSeq(v, 1, 4)
DualPart(v) == SubSeq(v, 5, 8)

\* the sum of two quaternions, component by component
QuatSum(a, b) == <<RAdd(a[1], b[1]), RAdd(a[2], b[2]), RAdd(a[3], b[3]), RAdd(a[4], b[4])>>

(***************************************************************************)
(* SpecDualProduct: one quat2Multiply(out, u, b) of two dual quaternions,  *)
(* b being "w" or "u" itself and out being "uo" or one of the operands.    *)
(***************************************************************************)
DualReals == {Vec4(0, 0, 0, 1), Vec4(1, 0, 0, 1), Vec4(1, 2, 0, -1), Vec4(0, 0, 0, 0),
              <<Half, Half, Half, Half>>, Vec4(1, -1, 2, 3)}
DualDuals == {Vec4(0, 0, 0, 0), Vec4(1, -2, 3, 1), Vec4(2, 0, 1, 1),
              <<Half, Zero, R(-1), R(3)>>}
DualInputs == {r \o d : r \in DualReals, d \in DualDuals}

InitDualProduct ==
  /\ Fresh
  /\ \E u \in DualInputs, w \in DualInputs :
       heap = ("u" :> u) @@ ("w" :> w) @@ ("uo" :> Quat2Out)
  /\ pre = heap

NextDualProduct == \E out \in {"uo", "u", "w"}, b \in {"w", "u"} : Quat2Multiply(out, "u", b)

SpecDualProduct == InitDualProduct /\ [][NextDualProduct]_vars

\* C24: quat2Multiply(out, a, b) of a = [r0, d0] and b = [r1, d1] leaves in
\* out the real part quatMultiply(r0, r1) and the dual part
\* quatMultiply(r0, d1) + quatMultiply(d0, r1), component by component.
C24_DualProductFromQuatProducts ==
  (phase = "done" /\ call.op = "quat2Multiply") =>
     /\ ret = call.out
     /\ RealPart(heap[call.out]) = QuatProduct(RealPart(pre[call.a]), RealPart(pre[call.b]))
     /\ DualPart(heap[call.out])
          = QuatSum(QuatProduct(RealPart(pre[call.a]), DualPart(pre[call.b])),
                    QuatProduct(DualPart(pre[call.a]), RealPart(pre[call.b])))

\* a product, written over its first operand, both of whose cross terms
\* are nonzero
C24_Witness ==
  /\ phase = "done" /\ call.op = "quat2Multiply" /\ call.out = "u" /\ call.b = "w"
  /\ pre["u"] = Vec4(1, 0, 0, 1) \o Vec4(1, -2, 3, 1)
  /\ pre["w"] = Vec4(1, 2, 0, -1) \o Vec4(2, 0, 1, 1)
  /\ QuatProduct(RealPart(pre["u"]), DualPart(pre["w"])) # Vec4(0, 0, 0, 0)
  /\ QuatProduct(DualPart(pre["u"]), RealPart(pre["w"])) # Vec4(0, 0, 0, 0)

\* out[i] = -a[i] / sqlen and out[i] = a[i] / sqlen
CopyNegOver(h, out, i, a, sqlen) == Wr(h, out, i, RDiv(RNeg(Rd(h, a, i)), sqlen))
CopyOver(h, out, i, a, sqlen) == Wr(h, out, i, RDiv(Rd(h, a, i), sqlen))

\* the writes of one half of quat2Invert, starting at index i
quat2InvertHalf(h, out, i, a, sqlen) ==
  CopyOver(CopyNegOver(CopyNegOver(CopyNegOver(h, out, i, a, sqlen), out, i + 1, a, sqlen),
                       out, i + 2, a, sqlen),
           out, i + 3, a, sqlen)

quat2InvertBy(h, out, a, sqlen) ==
  quat2InvertHalf(quat2InvertHalf(h, out, 0, a, sqlen), out, 4, a, sqlen)

\* sqlen is the squared length of the real part, read before the writes
quat2Invert(h, out, a) == quat2InvertBy(h, out, a, vec4SquaredLength(h, a))

(***************************************************************************)
(* SpecQuat2Invert: quat2Invert(out, u), or quat2Multiply(uo, u,           *)
(* quat2Invert(w, u)), for the dual quaternions u of SpecQuat.             *)
(***************************************************************************)
InitQuat2Invert == Fresh /\ InitQuat2 /\ pre = heap

Quat2Invert(out) ==
  /\ Done([op |-> "quat2Invert", out |-> out, a |-> "u"], out)
  /\ heap' = quat2Invert(heap, out, "u")

Quat2InvertMultiply ==
  /\ Done([op |-> "quat2InvertMultiply", out |-> "uo", a |-> "u", tmp |-> "w"], "uo")
  /\ heap' = quat2Multiply(quat2Invert(heap, "w", "u"), "uo", "u", "w")

NextQuat2Invert ==
  \/ \E out \in {"uo", "u"} : Quat2Invert(out)
  \/ Quat2InvertMultiply

SpecQuat2Invert == InitQuat2Invert /\ [][NextQuat2Invert]_vars

\* C25 as stated: for a dual quaternion a with a nonzero real part,
\* quat2Multiply(out, a, quat2Invert(tmp, a)) is the identity dual
\* quaternion [0, 0, 0, 1, 0, 0, 0, 0].
C25_InvertMultiplyIsIdentity ==
  (phase = "done" /\ call.op = "quat2InvertMultiply" /\ ~AllZero(RealPart(pre["u"])))
    => heap["uo"] = Quat2Out

\* the dot product of the real and the dual part
RealDotDual(v) ==
  RAdd(Mul2(v[1], v[5], v[2], v[6]), Mul2(v[3], v[7], v[4], v[8]))

\* the product is the identity but for its last element, which is twice the
\* dot product of the real and the dual part over the squared length of the
\* real part: the identity exactly when the two parts are orthogonal
InvertMultiplyIsIdentityPlusDot ==
  (phase = "done" /\ call.op = "quat2InvertMultiply" /\ ~AllZero(RealPart(pre["u"])))
    => heap["uo"] = Vec4(0, 0, 0, 1)
                      \o <<Zero, Zero, Zero,
                           RDiv(RMul(Two, RealDotDual(pre["u"])),
                                vec4SquaredLength(pre, "u"))>>


(***************************************************************************)
(* vec3.ts and vec4.ts: the transformation of a vector by a quaternion     *)
(***************************************************************************)
\* the component i of the cross product of (ax, ay, az) and (bx, by, bz)
CrossX(ay, az, by, bz) == RSub(RMul(ay, bz), RMul(az, by))

\* x + uvx * w2 + uuvx * 2
TransformSum(x, uv, w2, uuv) == RAdd(RAdd(x, RMul(uv, w2)), RMul(uuv, Two))

\* a vec3TransformQuat that does not double the second cross product
vec3TransformQuat_noDouble(h, out, a, q) ==
  LET qx == Rd(h, q, 0)  qy == Rd(h, q, 1)  qz == Rd(h, q, 2)  qw == Rd(h, q, 3)
      x == Rd(h, a, 0)  y == Rd(h, a, 1)  z == Rd(h, a, 2)
      uvx == CrossX(qy, qz, y, z)
      uvy == CrossX(qz, qx, z, x)
      uvz == CrossX(qx, qy, x, y)
      uuvx == CrossX(qy, qz, uvy, uvz)
      uuvy == CrossX(qz, qx, uvz, uvx)
      uuvz == CrossX(qx, qy, uvx, uvy)
      w2 == RMul(qw, Two)
  IN WrAll(h, out, <<RAdd(RAdd(x, RMul(uvx, w2)), uuvx),
                     RAdd(RAdd(y, RMul(uvy, w2)), uuvy),
                     RAdd(RAdd(z, RMul(uvz, w2)), uuvz)>>)

vec3TransformQuat(h, out, a, q) ==
  LET qx == Rd(h, q, 0)  qy == Rd(h, q, 1)  qz == Rd(h, q, 2)  qw == Rd(h, q, 3)
      x == Rd(h, a, 0)  y == Rd(h, a, 1)  z == Rd(h, a, 2)
      uvx == CrossX(qy, qz, y, z)
      uvy == CrossX(qz, qx, z, x)
      uvz == CrossX(qx, qy, x, y)
      uuvx == CrossX(qy, qz, uvy, uvz)
      uuvy == CrossX(qz, qx, uvz, uvx)
      uuvz == CrossX(qx, qy, uvx, uvy)
      w2 == RMul(qw, Two)
  IN WrAll(h, out, <<TransformSum(x, uvx, w2, uuvx), TransformSum(y, uvy, w2, uuvy),
                     TransformSum(z, uvz, w2, uuvz)>>)

\* ix * qw + iw * -qx + iy * -qz - iz * -qy
TransformBack(ix, qw, iw, qx, iy, qz, iz, qy) ==
  RSub(RAdd(RAdd(RMul(ix, qw), RMul(iw, RNeg(qx))), RMul(iy, RNeg(qz))), RMul(iz, RNeg(qy)))

\* out[3] = a[3] is read after the three writes
vec4TransformQuat(h, out, a, q) ==
  LET x == Rd(h, a, 0)  y == Rd(h, a, 1)  z == Rd(h, a, 2)
      qx == Rd(h, q, 0)  qy == Rd(h, q, 1)  qz == Rd(h, q, 2)  qw == Rd(h, q, 3)
      ix == RSub(RAdd(RMul(qw, x), RMul(qy, z)), RMul(qz, y))
      iy == RSub(RAdd(RMul(qw, y), RMul(qz, x)), RMul(qx, z))
      iz == RSub(RAdd(RMul(qw, z), RMul(qx, y)), RMul(qy, x))
      iw == RSub(RSub(RMul(RNeg(qx), x), RMul(qy, y)), RMul(qz, z))
  IN Copy(WrAll(h, out, <<TransformBack(ix, qw, iw, qx, iy, qz, iz, qy),
                          TransformBack(iy, qw, iw, qy, iz, qx, ix, qz),
                          TransformBack(iz, qw, iw, qz, ix, qy, iy, qx)>>),
          out, 3, a, 3)

(***************************************************************************)
(* SpecTransformQuat: one call of vec3TransformQuat on "v3" or of          *)
(* vec4TransformQuat on "v4", the same x, y, z with a w, by "q".           *)
(***************************************************************************)
TransformQuats == UnitQuats \cup {Vec4(1, 2, 3, 4), Vec4(0, 0, 0, 2), Vec4(0, 0, 0, 0)}
TransformVectors == Vec3s \cup {<<Half, R(3), Q(-2, 3)>>}
TransformWs == {R(0), R(1), R(5)}

InitTransformQuat ==
  /\ Fresh
  /\ \E q \in TransformQuats, v \in TransformVectors, w \in TransformWs :
       heap = ("q" :> q) @@ ("v3" :> v) @@ ("v4" :> Append(v, w))
                @@ ("o3" :> Vec(7, 8, 9)) @@ ("o4" :> Vec4(7, 8, 9, 6))
  /\ pre = heap

Vec3TransformQuat(out) ==
  /\ Done([op |-> "vec3TransformQuat", out |-> out, a |-> "v3", q |-> "q"], out)
  /\ heap' = vec3TransformQuat(heap, out, "v3", "q")

Vec4TransformQuat(out) ==
  /\ Done([op |-> "vec4TransformQuat", out |-> out, a |-> "v4", q |-> "q"], out)
  /\ heap' = vec4TransformQuat(heap, out, "v4", "q")

NextTransformQuat ==
  \/ \E out \in {"o3", "v3"} : Vec3TransformQuat(out)
  \/ \E out \in {"o4", "v4"} : Vec4TransformQuat(out)

SpecTransformQuat == InitTransformQuat /\ [][NextTransformQuat]_vars

IsUnit(q) == vec4SquaredLength([q |-> q], "q") = One

Conjugate(q) == <<RNeg(q[1]), RNeg(q[2]), RNeg(q[3]), q[4]>>

\* the vector part of q * (x, y, z, 0) * conjugate(q)
Sandwich(q, v) ==
  SubSeq(QuatProduct(QuatProduct(q, <<v[1], v[2], v[3], Zero>>), Conjugate(q)), 1, 3)

\* C26: for a unit quaternion q, vec3TransformQuat(out, [x, y, z], q) and
\* vec4TransformQuat(out, [x, y, z, w], q) leave the same x, y, z in out,
\* the vector part of q * v * conjugate(q), and vec4TransformQuat leaves w
\* in out[3].
C26_TransformQuatAgree ==
  (phase = "done" /\ IsUnit(pre["q"])) =>
     /\ call.op = "vec3TransformQuat" =>
          /\ heap[call.out] = SubSeq(vec4TransformQuat(pre, "o4", "v4", "q")["o4"], 1, 3)
          /\ heap[call.out] = Sandwich(pre["q"], pre["v3"])
     /\ call.op = "vec4TransformQuat" =>
          /\ SubSeq(heap[call.out], 1, 3) = vec3TransformQuat(pre, "o3", "v3", "q")["o3"]
          /\ SubSeq(heap[call.out], 1, 3) = Sandwich(pre["q"], pre["v3"])
          /\ heap[call.out][4] = pre["v4"][4]

\* a rotation about a diagonal axis that moves the vector
C26_Witness ==
  /\ phase = "done" /\ call.op = "vec3TransformQuat" /\ call.out = "o3"
  /\ pre["q"] = <<Half, Half, Half, Half>>
  /\ pre["v3"] = Vec(1, 0, -1)
  /\ heap["o3"] = Vec(-1, 1, 0)


(***************************************************************************)
(* SpecForEach: one call of the vec2, vec3 or vec4 forEach with a plain    *)
(* callback on an array "a" of any length up to MaxArrayLen, with strides  *)
(* below, at and above the vector width.                                   *)
(***************************************************************************)
MaxArrayLen == 7

ForEachStrides == 0..5
ForEachOffsets == 0..3
ForEachCounts == 0..2
PlainCallbacks == {Plain("scale"), Plain("negate")}

InitForEachAny ==
  /\ Fresh
  /\ \E n \in {2, 3, 4}, len \in 0..MaxArrayLen :
       heap = (VecScratch(n) :> Zeros(n)) @@ ("a" :> Counting(1, len))
  /\ pre = heap

NextForEachAny ==
  \E stride \in ForEachStrides, offset \in ForEachOffsets, count \in ForEachCounts,
     fn \in PlainCallbacks :
       \/ Vec2ForEach(stride, offset, count, fn)
       \/ Vec3ForEach(stride, offset, count, fn)
       \/ Vec4ForEach(stride, offset, count, fn)

SpecForEach == InitForEachAny /\ [][NextForEachAny]_vars

\* what a plain callback makes of one component
CallbackOf(kind, x) == IF kind = "scale" THEN RMul(x, Two) ELSE RNeg(x)

\* the array v with the callback applied to the vector of width n that
\* starts at index i, the other elements and the length being kept
AppliedAt(v, n, i, kind) ==
  [p \in DOMAIN v |-> IF i < p /\ p <= i + n THEN CallbackOf(kind, v[p]) ELSE v[p]]

\* the callback applied once to each vector starting at i, i + stride, ...
\* below l, in this order
RECURSIVE AppliedFrom(_, _, _, _, _, _)
AppliedFrom(v, n, stride, i, l, kind) ==
  IF i < l THEN AppliedFrom(AppliedAt(v, n, i, kind), n, stride, i + stride, l, kind) ELSE v

\* the indices at which the loop of this call starts a vector
ForEachStarts ==
  {i \in call.offset..(ForEachL - 1) :
     (i - call.offset) % ForEachStride(call.n, call.stride) = 0}

\* C27 as stated: forEach applies fn exactly once to every vector that
\* starts at an index offset + k * stride below l, writes the result back
\* to the same positions, modifies no other element of a, keeps the length
\* of a and returns a.
C27_ForEachFrame ==
  (phase = "done" /\ call.op = "forEach") =>
     /\ ret = call.a
     /\ Len(heap[call.a]) = Len(pre[call.a])
     /\ heap[call.a] = AppliedFrom(pre[call.a], call.n, ForEachStride(call.n, call.stride),
                                   call.offset, ForEachL, call.fn.kind)

\* the same when every vector the loop starts lies within the array
ForEachFrameWithinArray ==
  (phase = "done" /\ call.op = "forEach"
     /\ \A i \in ForEachStarts : i + call.n <= Len(pre[call.a])) =>
     /\ ret = call.a
     /\ Len(heap[call.a]) = Len(pre[call.a])
     /\ heap[call.a] = AppliedFrom(pre[call.a], call.n, ForEachStride(call.n, call.stride),
                                   call.offset, ForEachL, call.fn.kind)

\* a call over two overlapping vectors within the array
ForEachOverlapReached ==
  /\ phase = "done" /\ call.op = "forEach" /\ call.n = 3 /\ call.stride = 2
  /\ call.offset = 1 /\ call.count = 2 /\ call.fn.kind = "scale"
  /\ Len(pre["a"]) = 6
  /\ heap["a"] = <<R(1), R(4), R(6), R(16), R(10), R(12)>>


(***************************************************************************)
(* SpecSequence: two invocations of the same wrapper one after the other,  *)
(* the second starting after the first has returned.  The first works on   *)
(* "a", "b", ... and "out", the second on "a2", "b2", ... and "out2" (for  *)
(* forEach on the arrays "a" and "a2"); pre is the heap before the first.  *)
(***************************************************************************)
InitForEachTwice ==
  \E n \in {2, 3, 4}, na \in {1, 2}, na2 \in {1, 2}, from \in {1, 3} :
    heap = (VecScratch(n) :> Zeros(n)) @@ ("a" :> Counting(from, n * na))
             @@ ("a2" :> Counting(5, n * na2))

InitSequence ==
  /\ Fresh
  /\ (InitForEachTwice \/ InitRotationTo \/ InitSqlerp \/ InitSetAxes)
  /\ pre = heap

\* the first invocation ran and returned
FirstCall(c) ==
  /\ phase = "ready"
  /\ phase' = "once"
  /\ stack' = <<c>>
  /\ UNCHANGED <<pre, call, ret, ARRAY_TYPE, stype, born>>

\* the second invocation ran and returned r
SecondCall(c, r) ==
  /\ phase = "once"
  /\ stack[1].op = c.op
  /\ phase' = "done"
  /\ call' = c
  /\ ret' = r
  /\ UNCHANGED <<pre, stack, ARRAY_TYPE, stype, born>>

ForEachFirst(n, stride, offset, count, fn) ==
  /\ Has(VecScratch(n))
  /\ FirstCall([op |-> "forEach", n |-> n])
  /\ heap' = forEach(heap, n, "a", stride, offset, count, fn)

ForEachSecond(n, stride, offset, count, fn) ==
  /\ Has(VecScratch(n))
  /\ SecondCall([op |-> "forEach", n |-> n, a |-> "a2", stride |-> stride,
                 offset |-> offset, count |-> count, fn |-> fn], "a2")
  /\ heap' = forEach(heap, n, "a2", stride, offset, count, fn)

RotationToFirst ==
  /\ Has("tmpvec3")
  /\ rotationToDefined(heap, "out", "a", "b")
  /\ FirstCall([op |-> "rotationTo"])
  /\ heap' = rotationTo(heap, "out", "a", "b")

RotationToSecond ==
  /\ Has("tmpvec3")
  /\ rotationToDefined(heap, "out2", "a2", "b2")
  /\ SecondCall([op |-> "rotationTo", out |-> "out2", a |-> "a2", b |-> "b2"], "out2")
  /\ heap' = rotationTo(heap, "out2", "a2", "b2")

SqlerpFirst(t) ==
  /\ Has("temp1")
  /\ sqlerpDefined(heap, "a", "b", "c", "d", t)
  /\ FirstCall([op |-> "sqlerp"])
  /\ heap' = sqlerp(heap, "out", "a", "b", "c", "d", t)

SqlerpSecond(t) ==
  /\ Has("temp1")
  /\ sqlerpDefined(heap, "a2", "b2", "c2", "d2", t)
  /\ SecondCall([op |-> "sqlerp", out |-> "out2", a |-> "a2", b |-> "b2", c |-> "c2",
                 d |-> "d2", t |-> t], "out2")
  /\ heap' = sqlerp(heap, "out2", "a2", "b2", "c2", "d2", t)

SetAxesFirst ==
  /\ Has("matr")
  /\ setAxesDefined(heap, "out", "view", "right", "up")
  /\ FirstCall([op |-> "setAxes"])
  /\ heap' = setAxes(heap, "out", "view", "right", "up")

SetAxesSecond ==
  /\ Has("matr")
  /\ setAxesDefined(heap, "out2", "view2", "right2", "up2")
  /\ SecondCall([op |-> "setAxes", out |-> "out2", view |-> "view2", right |-> "right2",
                 up |-> "up2"], "out2")
  /\ heap' = setAxes(heap, "out2", "view2", "right2", "up2")

NextSequence ==
  \/ \E n \in {2, 3, 4} : \E stride \in {0, n}, offset \in {0, n}, count \in {0, 1},
        fn \in PlainCallbacks : ForEachFirst(n, stride, offset, count, fn)
  \/ \E n \in {2, 3, 4} : \E stride \in {0, n}, offset \in {0, n}, count \in {0, 1},
        fn \in PlainCallbacks : ForEachSecond(n, stride, offset, count, fn)
  \/ RotationToFirst
  \/ RotationToSecond
  \/ \E t \in SlerpTs : SqlerpFirst(t)
  \/ \E t \in SlerpTs : SqlerpSecond(t)
  \/ SetAxesFirst
  \/ SetAxesSecond

SpecSequence == InitSequence /\ [][NextSequence]_vars

\* the heap h with every element of every scratch buffer of the wrappers
\* replaced
RECURSIVE Filled(_, _)
Filled(n, v) == IF n = 0 THEN <<>> ELSE Append(Filled(n - 1, v), v)

StaleOne(h, o) == IF o \in DOMAIN h THEN [h EXCEPT ![o] = Filled(Len(h[o]), R(3))] ELSE h

Stale(h) ==
  StaleOne(StaleOne(StaleOne(StaleOne(StaleOne(StaleOne(StaleOne(h,
    VecScratch(2)), VecScratch(3)), VecScratch(4)), "tmpvec3"), "temp1"), "temp2"), "matr")

\* the invocation recorded in call, made on the heap h
SecondAlone(h) ==
  CASE call.op = "forEach" ->
         forEach(h, call.n, call.a, call.stride, call.offset, call.count, call.fn)
    [] call.op = "rotationTo" -> rotationTo(h, call.out, call.a, call.b)
    [] call.op = "sqlerp" -> sqlerp(h, call.out, call.a, call.b, call.c, call.d, call.t)
    [] call.op = "setAxes" -> setAxes(h, call.out, call.view, call.right, call.up)

SecondAloneDefined(h) ==
  CASE call.op = "forEach" -> TRUE
    [] call.op = "rotationTo" -> rotationToDefined(h, call.out, call.a, call.b)
    [] call.op = "sqlerp" -> sqlerpDefined(h, call.a, call.b, call.c, call.d, call.t)
    [] call.op = "setAxes" -> setAxesDefined(h, call.out, call.view, call.right, call.up)

\* C28: the result of an invocation of forEach, rotationTo, sqlerp or
\* setAxes that follows a completed invocation of the same wrapper depends
\* on its own arguments only: it is the result the same invocation gives on
\* the scratch as it was created, and the result it gives on a scratch
\* with any other contents.
C28_ResultIgnoresScratch ==
  phase = "done" =>
    \A h \in {pre, Stale(pre)} : SecondAloneDefined(h) /\ heap[ret] = SecondAlone(h)[ret]

\* a setAxes of a rotation about z that follows a setAxes of a half turn
\* about x, which left other contents in matr than the creation did
C28_Witness ==
  /\ phase = "done" /\ call.op = "setAxes"
  /\ pre["view"] = Vec(0, 0, 1) /\ pre["right"] = Vec(1, 0, 0) /\ pre["up"] = Vec(0, -1, 0)
  /\ pre["right2"] = <<Q(7, 25), Q(24, 25), Zero>>
  /\ setAxesWrite(pre, "view", "right", "up")["matr"] # pre["matr"]
  /\ heap["matr"] # setAxesWrite(pre, "view", "right", "up")["matr"]
  /\ heap["out"] = Vec4(1, 0, 0, 0)
  /\ heap["out2"] = <<Zero, Zero, Q(-3, 5), Q(4, 5)>>

\* second invocations of the other wrappers after a first that wrote the
\* scratch
SequencedForEachReached ==
  /\ phase = "done" /\ call.op = "forEach" /\ call.n = 3
  /\ pre["vec3.vec"] # heap["vec3.vec"]
  /\ pre["a"] # heap["a"] /\ pre["a2"] # heap["a2"]

SequencedRotationToReached ==
  /\ phase = "done" /\ call.op = "rotationTo"
  /\ rotationTo(pre, "out", "a", "b")["tmpvec3"] \notin {pre["tmpvec3"], heap["tmpvec3"]}

SequencedSqlerpReached ==
  /\ phase = "done" /\ call.op = "sqlerp"
  /\ heap["temp1"] # pre["temp1"]
  /\ heap["out2"] # pre["out2"]

=============================================================================
